---------------------------- MODULE Spec2Model ----------------------------
(***************************************************************************)
(* The AND/OR integration search engine of simpy.                          *)
(*                                                                         *)
(* The scheduler (Node, _cycle, frontier selection, Integration.integrate, *)
(* _integrate_safely, _integrate_heuristically, _check_if_solvable) is     *)
(* translated from src/transforms.py.  The transform classes exist in two  *)
(* generations: src/transforms.py ("legacy") and                           *)
(* src/src/simpy/transforms.py ("pkg").  The variable gen selects the      *)
(* generation whose SAFE_TRANSFORMS / HEURISTICS lists the scheduler       *)
(* iterates.                                                               *)
(*                                                                         *)
(* Expressions are structural terms [tag, val, den, args]; simplify,       *)
(* expand, diff, replace, count and nesting are computed on them as the    *)
(* source computes them.  Term lists keep the order in which simplify      *)
(* builds them (constant first); the final _sort is not applied.           *)
(*                                                                         *)
(* The translated functions call each other through call(f, args), the     *)
(* one recursive operator of the module that names them all: simplify      *)
(* calls Sum.simplify, which calls simplify, as in the source.             *)
(***************************************************************************)
EXTENDS Integers, Sequences, FiniteSets, TLC

\* ------------------------------------------------------------------ bounds
MaxNodes == 7       \* arena size: nodes ever created in one integrate call
MaxCycles == 16     \* calls of _cycle in one integrate call

RECURSIVE call(_, _)

\* ------------------------------------------------------------ expressions
\* Expr variants (src/src/simpy/expr.py): a record [tag, val, den, args].
Const(n, d)  == [tag |-> "Const",  val |-> n, den |-> d, args |-> <<>>]
Symbol(i)    == [tag |-> "Symbol", val |-> i, den |-> 1, args |-> <<>>]
Sum(ts)      == [tag |-> "Sum",    val |-> 0, den |-> 1, args |-> ts]
Prod(ts)     == [tag |-> "Prod",   val |-> 0, den |-> 1, args |-> ts]
Power(b, x)  == [tag |-> "Power",  val |-> 0, den |-> 1, args |-> <<b, x>>]
SingleFunc(cls, inner) == [tag |-> cls, val |-> 0, den |-> 1, args |-> <<inner>>]
NoExpr       == [tag |-> "None",   val |-> 0, den |-> 1, args |-> <<>>]
Pi           == [tag |-> "Pi",     val |-> 0, den |-> 1, args |-> <<>>]
E            == [tag |-> "E",      val |-> 0, den |-> 1, args |-> <<>>]
\* a fractions.Fraction that no Const wraps (Cos._special_values holds four)
RawFraction(n, d) == [tag |-> "Fraction", val |-> n, den |-> d, args |-> <<>>]
\* _cast: a Fraction given to a field of type Expr becomes a Const
cast(e)      == IF e.tag = "Fraction" THEN Const(e.val, e.den) ELSE e
\* the exception that ended the computation of an expression
Exc(name)    == [tag |-> name,     val |-> 0, den |-> 1, args |-> <<>>]
IsExc(e)     == e.tag \in {"RecursionError", "AttributeError"}

TrigFunction == {"Sin", "Cos", "Tan", "Sec", "Csc", "Cot", "ArcSin", "ArcCos", "ArcTan"}
InverseTrig  == {"ArcSin", "ArcCos", "ArcTan"}

Sin(e) == SingleFunc("Sin", e)
Cos(e) == SingleFunc("Cos", e)
Tan(e) == SingleFunc("Tan", e)
Sec(e) == SingleFunc("Sec", e)
Log(e) == SingleFunc("Log", e)
ArcSin(e) == SingleFunc("ArcSin", e)
ArcTan(e) == SingleFunc("ArcTan", e)

SeqMax(s) == CHOOSE m \in {s[i] : i \in DOMAIN s} : \A i \in DOMAIN s : s[i] <= m
SeqSum(s) == LET RECURSIVE go(_)
                 go(i) == IF i > Len(s) THEN 0 ELSE s[i] + go(i + 1)
             IN go(1)
SelectIdx(s, P(_)) == LET RECURSIVE go(_)
                          go(i) == IF i > Len(s) THEN <<>>
                                   ELSE IF P(s[i]) THEN <<s[i]>> \o go(i + 1) ELSE go(i + 1)
                      IN go(1)
RemoveAt(s, i) == SubSeq(s, 1, i - 1) \o SubSeq(s, i + 1, Len(s))
FlatMap(s, F(_)) == LET RECURSIVE go(_)
                        go(i) == IF i > Len(s) THEN <<>> ELSE F(s[i]) \o go(i + 1)
                    IN go(1)

\* a list comprehension: the list holds the values of its elements
List(f) == f \o <<>>

children(expr) == expr.args

RECURSIVE contains(_, _)
contains(expr, var) ==
    \/ expr.tag = "Symbol" /\ expr.val = var
    \/ \E i \in DOMAIN expr.args : contains(expr.args[i], var)

RECURSIVE symbols(_)
symbols(expr) ==
    IF expr.tag = "Symbol" THEN {expr.val}
    ELSE UNION {symbols(expr.args[i]) : i \in DOMAIN expr.args}

RECURSIVE count(_, _)
count(expr, query) ==
    IF expr = query THEN 1
    ELSE SeqSum([i \in DOMAIN expr.args |-> count(expr.args[i], query)])

RECURSIVE contains_cls(_, _)
contains_cls(expr, cls) ==
    \/ expr.tag \in cls
    \/ \E i \in DOMAIN expr.args : contains_cls(expr.args[i], cls)

RECURSIVE nesting(_, _)
nesting(expr, var) ==
    IF ~contains(expr, var) THEN 0
    ELSE IF expr.tag = "Prod" /\ Len(expr.args) = 2 /\ expr.args[1] = Const(-1, 1)
         THEN nesting(expr.args[2], var)
    ELSE IF expr.tag = "Symbol" /\ expr.val = var THEN 1
    ELSE IF Len(children(expr)) = 0 THEN 0
    ELSE 1 + SeqMax([i \in DOMAIN expr.args |-> nesting(expr.args[i], var)])

RECURSIVE replace(_, _, _)
replace(expr, old, new) ==
    IF expr = old THEN new
    ELSE [expr EXCEPT !.args = List([i \in DOMAIN expr.args |-> replace(expr.args[i], old, new)])]

\* ------------------------------------------------- exact rational numbers
RECURSIVE gcd(_, _)
gcd(a, b) == IF b = 0 THEN a ELSE gcd(b, a % b)

Abs(n) == IF n < 0 THEN -n ELSE n

\* Fraction(n, d): lowest terms, positive denominator
Fraction(n, d) ==
    LET s == IF d < 0 THEN -1 ELSE 1
        g == gcd(Abs(n), Abs(d))
    IN Const((s * n) \div g, (s * d) \div g)

FracAdd(a, b) == Fraction(a.val * b.den + b.val * a.den, a.den * b.den)
FracMul(a, b) == Fraction(a.val * b.val, a.den * b.den)
FracPow(b, k) == IF k >= 0 THEN Fraction(b.val ^ k, b.den ^ k)
                 ELSE Fraction(b.den ^ (-k), b.val ^ (-k))

IsConst(e) == e.tag = "Const"
Zero == Const(0, 1)
One == Const(1, 1)

\* Expr.__truediv__, Expr.__neg__, sqrt
Div(a, b) == Prod(<<a, Power(b, Const(-1, 1))>>)
Neg(a) == Prod(<<Const(-1, 1), a>>)
sqrt(a) == Power(a, Const(1, 2))

\* the exception raised first while a list of expressions was computed
first_exc(s) == SelectIdx(s, IsExc)[1]
has_exc(s) == \E i \in DOMAIN s : IsExc(s[i])
has_raw(s) == \E i \in DOMAIN s : s[i].tag = "Fraction"

\* ------------------------------------------------------------- simplify
\* Associative._flatten_inplace: nested terms of the same class are spliced in
flatten(terms, cls) ==
    FlatMap(terms, LAMBDA t : IF t.tag = cls THEN t.args ELSE <<t>>)

deconstruct_power(expr) ==
    IF expr.tag = "Power" THEN <<expr.args[1], expr.args[2]>> ELSE <<expr, One>>

\* _deconstruct_prod: 3*x^2*y -> (3, [x^2, y]); expr is simplified
deconstruct_prod(expr) ==
    IF expr.tag = "Prod"
    THEN LET cs == SelectIdx(expr.args, IsConst)
             coeff == IF cs = <<>> THEN One
                      ELSE LET RECURSIVE mul(_)
                               mul(i) == IF i > Len(cs) THEN One ELSE FracMul(cs[i], mul(i + 1))
                           IN mul(1)
         IN <<coeff, SelectIdx(expr.args, LAMBDA t : ~IsConst(t))>>
    ELSE <<One, <<expr>>>>


\* Prod.simplify lines 715-733: terms with the same base are merged by adding
\* their exponents
Prod_merge(ts) ==
    IF ts = <<>> THEN <<>>
    ELSE LET base == deconstruct_power(ts[1])[1]
             same == SelectIdx(ts, LAMBDA t : deconstruct_power(t)[1] = base)
             rest == SelectIdx(ts, LAMBDA t : deconstruct_power(t)[1] # base)
             expo == IF Len(same) = 1 THEN deconstruct_power(ts[1])[2]
                     ELSE Sum([i \in DOMAIN same |-> deconstruct_power(same[i])[2]])
         IN <<call("Power_simplify", <<base, expo>>)>> \o call("Prod_merge", <<rest>>)

Prod_simplify(terms0) ==
    LET simplified == List([i \in DOMAIN terms0 |-> call("simplify", <<terms0[i]>>)])
        \* Power(base, expo) casts a bare Fraction that is its base
        simplified_terms == flatten(List([i \in DOMAIN simplified |-> cast(simplified[i])]), "Prod")
        terms == call("Prod_merge", <<simplified_terms>>)
        consts == SelectIdx(terms, IsConst)
        RECURSIVE mul(_)
        mul(i) == IF i > Len(consts) THEN One ELSE FracMul(consts[i], mul(i + 1))
        const == mul(1)
        non_constant_terms == SelectIdx(terms, LAMBDA t : ~IsConst(t))
        final == (IF const = One THEN <<>> ELSE <<const>>) \o non_constant_terms
    IN IF has_exc(simplified) THEN first_exc(simplified)
       \* _sort_inplace compares the terms by nesting(), which a bare Fraction lacks
       ELSE IF has_raw(simplified) /\ Len(simplified) > 1 THEN Exc("AttributeError")
       ELSE IF has_exc(terms) THEN first_exc(terms)
       ELSE IF simplified = <<>> \/ terms = <<>> THEN One
       ELSE IF \E i \in DOMAIN terms : terms[i] = Zero THEN Zero
       ELSE IF non_constant_terms = <<>> THEN const
       ELSE IF Len(final) = 1 THEN final[1]
       ELSE Prod(flatten(final, "Prod"))

\* Sum.simplify lines 389-412: like terms are accumulated by adding coefficients
Sum_merge(ts) ==
    IF ts = <<>> THEN <<>>
    ELSE IF IsConst(ts[1]) THEN <<ts[1]>> \o call("Sum_merge", <<Tail(ts)>>)
    ELSE LET f1 == call("deconstruct_prod", <<ts[1]>>)[2]
             tl == Tail(ts)
             same == SelectIdx(tl, LAMBDA t : call("deconstruct_prod", <<t>>)[2] = f1)
             rest == SelectIdx(tl, LAMBDA t : call("deconstruct_prod", <<t>>)[2] # f1)
             RECURSIVE add(_)
             add(i) == IF i > Len(same) THEN call("deconstruct_prod", <<ts[1]>>)[1]
                       ELSE FracAdd(call("deconstruct_prod", <<same[i]>>)[1], add(i + 1))
         IN <<call("Prod_simplify", <<<<add(1)>> \o f1>>)>> \o call("Sum_merge", <<rest>>)

\* Sum.simplify lines 451-484, other_table: a term sin(u)^2 with a term
\* cos(u)^2, or a term sec(u)^2 with a term -tan(u)^2, stands for 1
other_table(new_sum) ==
    LET ts == new_sum.args
        sq(t, cls) == t.tag = "Power" /\ t.args[2] = Const(2, 1) /\ t.args[1].tag = cls
        neg_sq(t, cls) == t.tag = "Prod" /\ Len(t.args) = 2 /\ t.args[1] = Const(-1, 1)
                          /\ sq(t.args[2], cls)
        \* m.group(1) of the terms that match pattern1, pattern2
        r1_sin == List([i \in DOMAIN SelectIdx(ts, LAMBDA t : sq(t, "Sin")) |->
                          SelectIdx(ts, LAMBDA t : sq(t, "Sin"))[i].args[1].args[1]])
        r2_cos == {t.args[1].args[1] : t \in {ts[i] : i \in {j \in DOMAIN ts : sq(ts[j], "Cos")}}}
        r1_sec == {t.args[1].args[1] : t \in {ts[i] : i \in {j \in DOMAIN ts : sq(ts[j], "Sec")}}}
        r2_tan == {t.args[2].args[1].args[1] :
                      t \in {ts[i] : i \in {j \in DOMAIN ts : neg_sq(ts[j], "Tan")}}}
        ms == SelectIdx(r1_sin, LAMBDA m : m \in r2_cos)
        m == ms[1]
        new_terms == <<One>> \o SelectIdx(ts, LAMBDA t : t # Power(Sin(m), Const(2, 1))
                                                        /\ t # Power(Cos(m), Const(2, 1)))
    IN IF ms # <<>> THEN call("Sum_simplify", <<new_terms>>)
       \* the filter names sin and cos only: new_terms keeps sec(m)^2 and
       \* -tan(m)^2, Sum(new_terms).simplify() finds them again, and so on until
       \* the interpreter's recursion limit
       ELSE IF r1_sec \cap r2_tan # {} THEN Exc("RecursionError")
       ELSE new_sum

\* Sum.simplify lines 385-445
Sum_simplify(terms0) ==
    LET terms == List([i \in DOMAIN terms0 |-> call("simplify", <<terms0[i]>>)])
        new_terms == call("Sum_merge", <<terms>>)
        consts == SelectIdx(new_terms, IsConst)
        RECURSIVE add(_)
        add(i) == IF i > Len(consts) THEN Zero ELSE FracAdd(consts[i], add(i + 1))
        const == add(1)
        non_constant_terms == SelectIdx(new_terms, LAMBDA t : ~IsConst(t))
        final_terms == (IF const = Zero THEN <<>> ELSE <<const>>) \o non_constant_terms
        new_sum == Sum(flatten(final_terms, "Sum"))
        other == call("pythagorean", <<new_sum>>)
    IN IF has_exc(terms) THEN first_exc(terms)
       \* Prod([new_coeff, term]) sorts its two terms by nesting()
       ELSE IF has_raw(terms) THEN Exc("AttributeError")
       ELSE IF has_exc(new_terms) THEN first_exc(new_terms)
       ELSE IF terms = <<>> \/ new_terms = <<>> THEN Zero
       ELSE IF const = Zero /\ non_constant_terms = <<>> THEN Zero
       ELSE IF Len(final_terms) = 1 THEN final_terms[1]
       ELSE IF other # new_sum THEN other
       ELSE call("other_table", <<new_sum>>)

\* the integer k with k^q = m, as <<k>>; <<>> when there is none
int_root(m, q) ==
    LET ks == {k \in 0..m : k ^ q = m}
    IN IF ks = {} THEN <<>> ELSE <<CHOOSE k \in ks : TRUE>>

\* Power.simplify lines 847-850, 855-862: Const(b ** x) for an exponent x that
\* is no integer.  Fraction.__pow__ computes float(b) ** float(x), and
\* Const.__post_init__ accepts a float only when it is an integer: <<k>> then,
\* <<>> when the assertion fails, the power is complex, or 0 is divided by
float_pow(b, x) ==
    IF b.val < 0 THEN <<>>
    ELSE IF b.val = 0 THEN (IF x.val > 0 THEN <<0>> ELSE <<>>)
    ELSE IF x.val > 0 THEN (IF b.den = 1 THEN int_root(b.val ^ x.val, x.den) ELSE <<>>)
    ELSE IF b.val = 1 THEN int_root(b.den ^ (-x.val), x.den)
    ELSE <<>>

\* Power.simplify lines 840-883
Power_simplify(base0, expo0) ==
    LET x == call("simplify", <<expo0>>)
        b == call("simplify", <<base0>>)
        num == float_pow(Const(b.val, 1), x)
        denom == float_pow(Const(b.den, 1), x)
        logs == SelectIdx([i \in DOMAIN x.args |-> i], LAMBDA i : x.args[i].tag = "Log" /\ b = E)
    IN IF IsExc(x) THEN x
       ELSE IF IsExc(b) THEN b
       ELSE IF cast(x) = Zero /\ cast(b) # Zero THEN One
       ELSE IF cast(x) = One THEN b
       ELSE IF IsConst(b) /\ IsConst(x)
            THEN IF x.den = 1
                 THEN (IF b.val = 0 /\ x.val < 0 THEN Power(b, x) ELSE FracPow(b, x.val))
                 ELSE IF float_pow(b, x) # <<>> THEN Const(float_pow(b, x)[1], 1)
                 ELSE IF b.den = 1 THEN Power(b, x)
                 ELSE IF num = <<>> /\ denom = <<>> THEN Power(b, x)
                 ELSE Div(IF num # <<>> THEN Const(num[1], 1) ELSE Power(Const(b.val, 1), x),
                          IF denom # <<>> THEN Const(denom[1], 1) ELSE Power(Const(b.den, 1), x))
       ELSE IF b.tag = "Power"
            THEN call("Power_simplify", <<b.args[1], Prod(<<cast(x), b.args[2]>>)>>)
       ELSE IF b.tag = "Prod"
            THEN Prod(List([i \in DOMAIN b.args |-> call("Power_simplify", <<b.args[i], cast(x)>>)]))
       ELSE IF x.tag = "Log" /\ b = E THEN call("simplify", <<x.args[1]>>)
       ELSE IF x.tag = "Prod" /\ logs # <<>>
            THEN call("Power_simplify",
                      <<call("Power_simplify", <<b, x.args[logs[1]]>>), Prod(RemoveAt(x.args, logs[1]))>>)
       ELSE Power(cast(b), cast(x))

\* TrigFunction.simplify lines 1046-1073: f(f^-1(x)) -> x and the
\* double_trigfunction_simplification_dict rows for asin, acos, atan
is_inverse(cls) == cls \in InverseTrig
function(cls) ==
    CASE cls \in {"Sin", "ArcSin"} -> "sin" [] cls \in {"Cos", "ArcCos"} -> "cos"
      [] cls \in {"Tan", "ArcTan"} -> "tan" [] cls = "Sec" -> "sec"
      [] cls = "Csc" -> "csc" [] cls = "Cot" -> "cot" [] OTHER -> ""

TrigFunction_simplify(cls, inner0) ==
    LET inner == call("simplify", <<inner0>>)
        x == inner.args[1]
        sq1m == Power(Sum(<<One, Prod(<<Const(-1, 1), Power(x, Const(2, 1))>>)>>), Const(1, 2))
        sq1p == Power(Sum(<<One, Power(x, Const(2, 1))>>), Const(1, 2))
        inv(a) == Power(a, Const(-1, 1))
    IN IF IsExc(inner) THEN inner
       ELSE IF inner.tag \in TrigFunction /\ is_inverse(inner.tag) # is_inverse(cls)
       THEN IF function(inner.tag) = function(cls) THEN x
            ELSE IF cls = "Sin" /\ inner.tag = "ArcCos" THEN call("simplify", <<sq1m>>)
            ELSE IF cls = "Sin" /\ inner.tag = "ArcTan" THEN call("simplify", <<Prod(<<x, inv(sq1p)>>)>>)
            ELSE IF cls = "Cos" /\ inner.tag = "ArcSin" THEN call("simplify", <<sq1m>>)
            ELSE IF cls = "Cos" /\ inner.tag = "ArcTan" THEN call("simplify", <<inv(sq1p)>>)
            ELSE IF cls = "Tan" /\ inner.tag = "ArcSin" THEN call("simplify", <<Prod(<<x, inv(sq1m)>>)>>)
            ELSE IF cls = "Tan" /\ inner.tag = "ArcCos" THEN call("simplify", <<Prod(<<sq1m, inv(x)>>)>>)
            ELSE SingleFunc(cls, inner)
       ELSE SingleFunc(cls, cast(inner))

\* Const.__mod__ with a positive integer: the value in [0, m)
Const_mod(c, m) == Fraction(c.val % (m * c.den), c.den)

\* TrigFunction._SPECIAL_KEYS, as values of pi_coeff
SPECIAL_KEYS ==
    {Const(0, 1), Const(1, 4), Const(1, 3), Const(1, 2), Const(2, 3), Const(3, 4),
     Const(1, 1), Const(5, 4), Const(4, 3), Const(3, 2), Const(5, 3), Const(7, 4)}

\* Sin._special_values, as the class body builds them
Sin_special_values(k) ==
    CASE k = Const(0, 1) -> Const(0, 1)
      [] k = Const(1, 4) -> Div(One, sqrt(Const(2, 1)))
      [] k = Const(1, 3) -> Div(sqrt(Const(3, 1)), Const(2, 1))
      [] k = Const(1, 2) -> Const(1, 1)
      [] k = Const(2, 3) -> Div(One, sqrt(Const(2, 1)))
      [] k = Const(3, 4) -> Div(sqrt(Const(3, 1)), Const(2, 1))
      [] k = Const(1, 1) -> Const(0, 1)
      [] k = Const(5, 4) -> Div(Const(-1, 1), sqrt(Const(2, 1)))
      [] k = Const(4, 3) -> Prod(<<Const(-1, 1), sqrt(Const(3, 1)), Power(Const(2, 1), Const(-1, 1))>>)
      [] k = Const(3, 2) -> Neg(Const(1, 1))
      [] k = Const(5, 3) -> Div(Const(-1, 1), sqrt(Const(2, 1)))
      [] k = Const(7, 4) -> Prod(<<Const(-1, 1), sqrt(Const(3, 1)), Power(Const(2, 1), Const(-1, 1))>>)

\* Cos._special_values, as the class body builds them
Cos_special_values(k) ==
    CASE k = Const(0, 1) -> Const(1, 1)
      [] k = Const(1, 4) -> Div(One, sqrt(Const(2, 1)))
      [] k = Const(1, 3) -> RawFraction(1, 2)
      [] k = Const(1, 2) -> Const(0, 1)
      [] k = Const(2, 3) -> RawFraction(-1, 2)
      [] k = Const(3, 4) -> Div(Const(-1, 1), sqrt(Const(2, 1)))
      [] k = Const(1, 1) -> Const(-1, 1)
      [] k = Const(5, 4) -> Div(Const(-1, 1), sqrt(Const(2, 1)))
      [] k = Const(4, 3) -> RawFraction(-1, 2)
      [] k = Const(3, 2) -> Neg(Const(0, 1))
      [] k = Const(5, 3) -> RawFraction(1, 2)
      [] k = Const(7, 4) -> Div(One, sqrt(Const(2, 1)))

\* pi_coeff = (new.inner / pi).simplify(), taken % 2 when it is a Const
pi_coeff(inner) ==
    LET c == call("simplify", <<Div(inner, Pi)>>)
    IN IF IsConst(c) THEN Const_mod(c, 2) ELSE c

\* "pi" in new.inner.__repr__()
has_pi(e) == contains_cls(e, {"Pi"})

\* Sin.simplify lines 1099-1114
Sin_simplify(inner0) ==
    LET new == call("TrigFunction_simplify", <<"Sin", inner0>>)
        c == call("pi_coeff", <<new.args[1]>>)
    IN IF new.tag # "Sin" THEN new
       ELSE IF new.args[1] = Zero THEN Zero
       ELSE IF c \in SPECIAL_KEYS THEN Sin_special_values(c)
       ELSE new

\* Cos.simplify lines 1138-1158
Cos_simplify(inner0) ==
    LET new == call("TrigFunction_simplify", <<"Cos", inner0>>)
        inner == new.args[1]
        c == call("pi_coeff", <<inner>>)
    IN IF new.tag # "Cos" THEN new
       ELSE IF inner.tag = "Prod" /\ IsConst(inner.args[1]) /\ inner.args[1].val < 0
            THEN LET pos == call("simplify", <<Prod(<<inner, Const(-1, 1)>>)>>)
                 IN IF IsExc(pos) THEN pos ELSE Cos(cast(pos))
       ELSE IF symbols(inner) # {} THEN new
       ELSE IF inner = Zero THEN One
       ELSE IF has_pi(inner) /\ c \in SPECIAL_KEYS THEN Cos_special_values(c)
       ELSE new

\* Tan.simplify lines 1168-1184
Tan_simplify(inner0) ==
    LET new == call("TrigFunction_simplify", <<"Tan", inner0>>)
        inner == new.args[1]
    IN IF new.tag # "Tan" THEN new
       ELSE IF inner = Zero THEN Zero
       ELSE IF has_pi(inner) /\ call("pi_coeff", <<inner>>) \in SPECIAL_KEYS
            THEN call("simplify", <<Div(Sin(inner), Cos(inner))>>)
       ELSE new

\* Sec.simplify lines 1207-1217
Sec_simplify(inner0) ==
    LET new == call("TrigFunction_simplify", <<"Sec", inner0>>)
        inner == new.args[1]
    IN IF new.tag # "Sec" THEN new
       ELSE IF call("pi_coeff", <<inner>>) \in SPECIAL_KEYS
            THEN call("simplify", <<Div(One, Cos(inner))>>)
       ELSE new

\* Sum.factor lines 516-594: the factors and the coefficient common to all
\* terms are taken out of a simplified sum
Sum_factor(ts) ==
    LET Triple(b, n, pos) == [b |-> b, n |-> n, pos |-> pos]
        \* _df(term)[1][0] for a factor of a product
        df1(f) == IF f.tag = "Power" /\ IsConst(f.args[2])
                  THEN Triple(f.args[1], Const(Abs(f.args[2].val), f.args[2].den), f.args[2].val > 0)
                  ELSE Triple(f, One, TRUE)
        df(term) ==
            IF term.tag = "Prod"
            THEN LET d == call("deconstruct_prod", <<term>>)
                 IN <<d[1], List([i \in DOMAIN d[2] |-> df1(d[2][i])])>>
            ELSE IF IsConst(term) THEN <<term, <<Triple(term, One, TRUE)>>>>
            ELSE <<One, <<df1(term)>>>>
        dfs == List([i \in DOMAIN ts |-> df(ts[i])])
        less(a, b) == a.val * b.den < b.val * a.den
        min(a, b) == IF less(b, a) THEN b ELSE a
        \* common_factors after the terms up to k; an entry set to None is dropped
        RECURSIVE common_factors(_)
        common_factors(k) ==
            IF k = 1 THEN dfs[1][2]
            ELSE LET cf == common_factors(k - 1)
                     tf == dfs[k][2]
                     hits(c) == SelectIdx(tf, LAMBDA t : t.b = c.b /\ t.pos = c.pos)
                     kept == SelectIdx(cf, LAMBDA c : hits(c) # <<>>)
                 IN List([i \in DOMAIN kept |-> [kept[i] EXCEPT !.n = min(@, hits(kept[i])[1].n)]])
        abs(c) == Const(Abs(c.val), c.den)
        \* common_coeff after the coefficients up to k, <<>> for None
        RECURSIVE common_coeff(_)
        common_coeff(k) ==
            IF k = 1 THEN <<abs(dfs[1][1])>>
            ELSE LET cc == common_coeff(k - 1)
                     c == dfs[k][1]
                     x == FracMul(c, FracPow(cc[1], -1))
                     y == FracMul(cc[1], FracPow(c, -1))
                 IN IF cc = <<>> THEN <<>>
                    ELSE IF x.den = 1 \/ y.den = 1 THEN <<min(abs(c), cc[1])>>
                    ELSE <<>>
        is_negative == \A i \in DOMAIN dfs : dfs[i][1].val < 0
        coeff == IF common_coeff(Len(ts)) = <<>> THEN <<>>
                 ELSE IF is_negative THEN <<Prod(<<common_coeff(Len(ts))[1], Const(-1, 1)>>)>>
                 ELSE common_coeff(Len(ts))
        cfs == common_factors(Len(ts))
        makeprod == IF cfs = <<>> THEN One
                    ELSE Prod(List([i \in DOMAIN cfs |->
                             Power(cfs[i].b, Prod(<<cfs[i].n, Const(IF cfs[i].pos THEN 1 ELSE -1, 1)>>))]))
        common_expr == IF coeff = <<>> THEN makeprod ELSE Prod(<<makeprod, coeff[1]>>)
        new_terms == List([i \in DOMAIN ts |-> Div(ts[i], common_expr)])
    IN call("simplify", <<Prod(<<common_expr, Sum(new_terms)>>)>>)

\* Log.simplify lines 967-988
Log_simplify(inner0) ==
    LET inner == call("simplify", <<inner0>>)
        factored == call("Sum_factor", <<inner.args>>)
        logs(ts) == Sum(List([i \in DOMAIN ts |-> Log(ts[i])]))
        reciprocal_class == CASE inner.tag = "Sec" -> "Cos" [] inner.tag = "Csc" -> "Sin"
                              [] inner.tag = "Cot" -> "Tan"
        rec == call("simplify", <<Log(SingleFunc(reciprocal_class, inner.args[1]))>>)
    IN IF IsExc(inner) THEN inner
       ELSE IF cast(inner) = One THEN Zero
       ELSE IF inner = E THEN One
       ELSE IF inner.tag = "Power"
            THEN call("simplify", <<Prod(<<Log(inner.args[1]), inner.args[2]>>)>>)
       ELSE IF inner.tag = "Prod" THEN call("simplify", <<logs(inner.args)>>)
       ELSE IF inner.tag = "Sum" /\ factored.tag = "Prod"
            THEN call("simplify", <<logs(factored.args)>>)
       ELSE IF inner.tag \in {"Sec", "Csc", "Cot"}
            THEN (IF IsExc(rec) THEN rec ELSE Prod(<<Const(-1, 1), rec>>))
       ELSE Log(cast(inner))

simplify(expr) ==
    CASE expr.tag = "Sum"   -> call("Sum_simplify", <<expr.args>>)
      [] expr.tag = "Prod"  -> call("Prod_simplify", <<expr.args>>)
      [] expr.tag = "Power" -> call("Power_simplify", <<expr.args[1], expr.args[2]>>)
      [] expr.tag \in {"Const", "Symbol", "None", "Pi", "E"} -> expr
      \* a Fraction has no method simplify
      [] expr.tag = "Fraction" -> Exc("AttributeError")
      [] expr.tag = "Sin" -> call("Sin_simplify", <<expr.args[1]>>)
      [] expr.tag = "Cos" -> call("Cos_simplify", <<expr.args[1]>>)
      [] expr.tag = "Tan" -> call("Tan_simplify", <<expr.args[1]>>)
      [] expr.tag = "Sec" -> call("Sec_simplify", <<expr.args[1]>>)
      [] expr.tag \in TrigFunction -> call("TrigFunction_simplify", <<expr.tag, expr.args[1]>>)
      [] expr.tag = "Log" -> call("Log_simplify", <<expr.args[1]>>)
      [] OTHER -> LET inner == call("simplify", <<expr.args[1]>>)
                  IN IF IsExc(inner) THEN inner ELSE SingleFunc(expr.tag, cast(inner))


\* ------------------------------------------------------------------ Node
\* symbols: X is the variable of integration, Y a parameter; the symbol made
\* by generate_intermediate_var has a name no other symbol has
X == 0
Y == 1
FreshBase == 10

NoTransform == [cls |-> "None", data |-> NoExpr]
Transform(cls, data) == [cls |-> cls, data |-> data]

\* Node.__init__ + __post_init__: the expression is simplified on construction
Node(expr, var, transform, parent) ==
    [expr |-> call("simplify", <<expr>>), var |-> var, transform |-> transform,
     parent |-> parent, children |-> <<>>, type |-> "UNSET", solution |-> NoExpr]

\* T is the arena of nodes (a sequence); node 1 is the root, parent 0 is None
RECURSIVE leaves(_, _)
leaves(T, n) ==
    IF T[n].children = <<>> THEN <<n>>
    ELSE FlatMap(T[n].children, LAMBDA c : leaves(T, c))

RECURSIVE is_solved(_, _)
\* is_solved without the UNSET case of line 68
is_solved_and_only(T, n) ==
    IF T[n].type = "SOLUTION" THEN TRUE
    ELSE IF T[n].children = <<>> THEN FALSE
    ELSE IF T[n].type = "AND"
         THEN \A i \in DOMAIN T[n].children : is_solved(T, T[n].children[i])
    ELSE IF T[n].type = "OR"
         THEN \E i \in DOMAIN T[n].children : is_solved(T, T[n].children[i])
    ELSE FALSE

\* is_solved whose AND / UNSET case (line 70) asks for one solved child, not all
is_solved_any(T, n) ==
    IF T[n].type = "SOLUTION" THEN TRUE
    ELSE IF T[n].children = <<>> THEN FALSE
    ELSE \E i \in DOMAIN T[n].children : is_solved(T, T[n].children[i])

is_solved(T, n) ==
    IF T[n].type = "SOLUTION" THEN TRUE
    ELSE IF T[n].children = <<>> THEN FALSE
    ELSE IF T[n].type = "AND" \/ T[n].type = "UNSET"
         THEN \A i \in DOMAIN T[n].children : is_solved(T, T[n].children[i])
    ELSE IF T[n].type = "OR"
         THEN \E i \in DOMAIN T[n].children : is_solved(T, T[n].children[i])
    ELSE FALSE

RECURSIVE is_failed(_, _)
\* is_failed whose last line (90) asks for kind AND
is_failed_and_only(T, n) ==
    IF T[n].type = "FAILURE" THEN TRUE
    ELSE IF T[n].children = <<>> THEN FALSE
    ELSE IF T[n].type = "OR"
         THEN \A i \in DOMAIN T[n].children : is_failed(T, T[n].children[i])
    ELSE T[n].type = "AND" /\ \E i \in DOMAIN T[n].children : is_failed(T, T[n].children[i])

\* is_failed whose last line (90) asks for every child to have failed
is_failed_all(T, n) ==
    IF T[n].type = "FAILURE" THEN TRUE
    ELSE IF T[n].children = <<>> THEN FALSE
    ELSE \A i \in DOMAIN T[n].children : is_failed(T, T[n].children[i])

is_failed(T, n) ==
    IF T[n].type = "FAILURE" THEN TRUE
    ELSE IF T[n].children = <<>> THEN FALSE
    ELSE IF T[n].type = "OR"
         THEN \A i \in DOMAIN T[n].children : is_failed(T, T[n].children[i])
    ELSE \E i \in DOMAIN T[n].children : is_failed(T, T[n].children[i])

is_finished(T, n) == is_solved(T, n) \/ is_failed(T, n)

unfinished_leaves(T, n) == SelectIdx(leaves(T, n), LAMBDA l : ~is_finished(T, l))

unsolved_children(T, n) == SelectIdx(T[n].children, LAMBDA c : ~is_solved(T, c))

\* nodes reachable from the root through children lists
RECURSIVE subtree(_, _)
subtree(T, n) ==
    {n} \cup UNION {subtree(T, T[n].children[i]) : i \in DOMAIN T[n].children}

\* --------------------------------------------- expression algebra helpers
SetMin(S) == CHOOSE m \in S : \A k \in S : m <= k

\* Prod.numerator_denominator (pkg expr.py 676-704)
numerator_denominator(expr) ==
    LET numOf(t) == IF IsConst(t) THEN (IF t.val # 1 THEN <<Const(t.val, 1)>> ELSE <<>>)
                    ELSE LET bx == deconstruct_power(t)
                         IN IF IsConst(bx[2]) /\ bx[2].val < 0 THEN <<>> ELSE <<t>>
        denOf(t) == IF IsConst(t) THEN (IF t.den # 1 THEN <<Const(t.den, 1)>> ELSE <<>>)
                    ELSE LET bx == deconstruct_power(t)
                         IN IF IsConst(bx[2]) /\ bx[2].val < 0
                            THEN (IF bx[2] = Const(-1, 1) THEN <<bx[1]>>
                                  ELSE <<Power(bx[1], Fraction(-bx[2].val, bx[2].den))>>)
                            ELSE <<>>
        numerator == FlatMap(expr.args, numOf)
        denominator == FlatMap(expr.args, denOf)
        pack(l) == IF Len(l) > 1 THEN Prod(l) ELSE IF Len(l) = 1 THEN l[1] ELSE One
    IN <<pack(numerator), pack(denominator)>>

\* ------------------------------------------------------------------- text
\* __repr__: the text of an expression, a sequence of characters
RECURSIVE Digits(_)
Digits(n) ==
    LET d == <<"0", "1", "2", "3", "4", "5", "6", "7", "8", "9">>[(n % 10) + 1]
    IN IF n < 10 THEN <<d>> ELSE Digits(n \div 10) \o <<d>>

\* str(int)
IntText(i) == IF i < 0 THEN <<"-">> \o Digits(-i) ELSE Digits(i)

\* Symbol.name: symbols("x y"); an intermediate variable is "u_" and a random
\* run of characters, here the digits of its number
SymName(i) ==
    IF i = X THEN <<"x">> ELSE IF i = Y THEN <<"y">> ELSE <<"u", "_">> \o IntText(i)

\* SingleFunc._label
label(cls) ==
    CASE cls = "Sin" -> <<"s", "i", "n">>
      [] cls = "Cos" -> <<"c", "o", "s">>
      [] cls = "Tan" -> <<"t", "a", "n">>
      [] cls = "Sec" -> <<"s", "e", "c">>
      [] cls = "Csc" -> <<"c", "s", "c">>
      [] cls = "Cot" -> <<"c", "o", "t">>
      [] cls = "ArcSin" -> <<"a", "s", "i", "n">>
      [] cls = "ArcCos" -> <<"a", "c", "o", "s">>
      [] cls = "ArcTan" -> <<"a", "t", "a", "n">>
      [] cls = "sqrt" -> <<"s", "q", "r", "t">>
      [] OTHER -> <<"l", "n">>

\* _repr(inner, label) lines 952-956
func_repr(inner_repr, lab) ==
    IF inner_repr[1] = "(" /\ inner_repr[Len(inner_repr)] = ")" THEN lab \o inner_repr
    ELSE lab \o <<"(">> \o inner_repr \o <<")">>

\* Prod.is_subtraction
is_subtraction(p) == IsConst(p.args[1]) /\ p.args[1].val < 0

RECURSIVE repr(_)
bracket(t) == <<"(">> \o repr(t) \o <<")">>

\* Const, Pi, E, Symbol, Sum, Prod, Power and SingleFunc __repr__
repr(e) ==
    LET \* Prod._term_repr and Power._term_repr
        prod_term(t) == IF t.tag = "Sum" THEN bracket(t) ELSE repr(t)
        power_term(t) == IF t.tag \in {"Sum", "Prod"} THEN bracket(t) ELSE repr(t)
        \* (self * -1).simplify()
        negated == call("simplify", <<Prod(<<e, Const(-1, 1)>>)>>)
        nd == numerator_denominator(e)
        _x(p) == IF p.tag # "Prod" THEN prod_term(p)
                 ELSE IF Len(p.args) = 1 THEN prod_term(p.args[1])
                 ELSE bracket(p)
        RECURSIVE star(_)
        star(i) == IF i = Len(e.args) THEN prod_term(e.args[i])
                   ELSE prod_term(e.args[i]) \o <<"*">> \o star(i + 1)
        RECURSIVE plus(_)
        plus(i) ==
            IF i > Len(e.args) THEN <<>>
            ELSE (IF i = 1 THEN repr(e.args[i])
                  ELSE IF e.args[i].tag = "Prod" /\ is_subtraction(e.args[i])
                  THEN <<" ", "-", " ">>
                       \o repr(call("simplify", <<Prod(<<e.args[i], Const(-1, 1)>>)>>))
                  ELSE <<" ", "+", " ">> \o repr(e.args[i]))
                 \o plus(i + 1)
    IN CASE e.tag = "Const" ->
                IF e.den # 1 THEN <<"(">> \o IntText(e.val) \o <<"/">> \o IntText(e.den) \o <<")">>
                ELSE IntText(e.val)
         [] e.tag = "Pi" -> <<"p", "i">>
         [] e.tag = "E" -> <<"e">>
         [] e.tag = "Symbol" -> SymName(e.val)
         [] e.tag = "Sum" -> plus(1)
         [] e.tag = "Prod" ->
                IF is_subtraction(e)
                THEN (IF negated.tag # "Prod" THEN <<"-">> \o prod_term(negated)
                      ELSE <<"-">> \o repr(negated))
                ELSE IF nd[2] # One THEN _x(nd[1]) \o <<"/">> \o _x(nd[2])
                ELSE star(1)
         [] e.tag = "Power" ->
                IF e.args[2] = Const(-1, 1) THEN <<"1", "/">> \o power_term(e.args[1])
                ELSE IF e.args[2] = Const(1, 2) THEN func_repr(repr(e.args[1]), label("sqrt"))
                ELSE IF e.args[2] = Const(-1, 2)
                THEN <<"1", "/">> \o func_repr(repr(e.args[1]), label("sqrt"))
                ELSE power_term(e.args[1]) \o <<"^">> \o power_term(e.args[2])
         [] OTHER -> func_repr(repr(e.args[1]), label(e.tag))

\* the characters \w matches
WordChars ==
    {"a", "b", "c", "d", "e", "f", "g", "h", "i", "j", "k", "l", "m", "n", "o", "p", "q",
     "r", "s", "t", "u", "v", "w", "x", "y", "z", "_",
     "0", "1", "2", "3", "4", "5", "6", "7", "8", "9"}

\* re.search(r"1 <sign> <lab>\((\w+)\)\^2", text).group(1): the text (\w+)
\* captures in the leftmost place where the pattern matches, <<>> for no match
re_search(sign, lab, text) ==
    LET pre == <<"1", " ", sign, " ">> \o lab \o <<"(">>
        RECURSIVE run(_)
        run(p) == IF p <= Len(text) /\ text[p] \in WordChars THEN 1 + run(p + 1) ELSE 0
        matches(i) ==
            LET p == i + Len(pre)
            IN /\ p - 1 <= Len(text)
               /\ SubSeq(text, i, p - 1) = pre
               /\ run(p) >= 1
               /\ p + run(p) + 2 <= Len(text)
               /\ SubSeq(text, p + run(p), p + run(p) + 2) = <<")", "^", "2">>
        starts == {i \in DOMAIN text : matches(i)}
        first == CHOOSE i \in starts : \A j \in starts : i <= j
    IN IF starts = {} THEN <<>>
       ELSE SubSeq(text, first + Len(pre), first + Len(pre) + run(first + Len(pre)) - 1)

\* Symbol(result): the symbol of that name; a name that belongs to no symbol
\* of the arena (digits, "pi") makes a symbol of its own, numbered -1
named(w) ==
    LET ids == {i \in {X, Y} \cup (FreshBase .. FreshBase + 2 * MaxNodes) : SymName(i) = w}
    IN IF ids = {} THEN Symbol(-1) ELSE Symbol(CHOOSE i \in ids : TRUE)

\* Sum.simplify lines 427-445: the first of the six patterns that re.search
\* finds in the text of a two-term sum rewrites the sum
pythagorean(new_sum) ==
    LET text == repr(new_sum)
        group(sign, cls) == re_search(sign, label(cls), text)
        Sq(cls, w) == Power(SingleFunc(cls, named(w)), Const(2, 1))
        InvSq(cls, w) == Power(SingleFunc(cls, named(w)), Const(-2, 1))
    IN IF ~contains_cls(new_sum, TrigFunction) \/ Len(new_sum.args) # 2 THEN new_sum
       ELSE IF group("+", "Tan") # <<>> THEN Sq("Sec", group("+", "Tan"))
       ELSE IF group("+", "Cot") # <<>> THEN Sq("Csc", group("+", "Cot"))
       ELSE IF group("-", "Sin") # <<>> THEN Sq("Cos", group("-", "Sin"))
       ELSE IF group("-", "Cos") # <<>> THEN Sq("Sin", group("-", "Cos"))
       ELSE IF group("-", "Tan") # <<>> THEN InvSq("Tan", group("-", "Tan"))
       ELSE IF group("-", "Cot") # <<>> THEN InvSq("Cot", group("-", "Cot"))
       ELSE new_sum

\* expandable(): Expr default, Prod and Power overrides.  In the legacy
\* expr.py the default is False and a product is expandable when it has a
\* Sum factor or an expandable factor.
expandable(g, e) ==
    IF e.tag = "Power"
    THEN /\ IsConst(e.args[2]) /\ e.args[2].den = 1 /\ e.args[2].val >= 1
         /\ e.args[1].tag = "Sum"
    ELSE IF e.tag = "Prod"
    THEN IF g = "legacy"
         THEN \/ \E i \in DOMAIN e.args : e.args[i].tag = "Sum"
              \/ \E i \in DOMAIN e.args : call("expandable", <<g, e.args[i]>>)
         ELSE LET nd == call("numerator_denominator", <<e>>)
                  num == nd[1]
                  denom == nd[2]
              IN \/ IF num.tag = "Prod" THEN \E i \in DOMAIN num.args : num.args[i].tag = "Sum"
                    ELSE num.tag = "Sum"
                 \/ IF denom.tag = "Prod" THEN \E i \in DOMAIN denom.args : denom.args[i].tag = "Sum"
                    ELSE FALSE
                 \/ \E i \in DOMAIN e.args : call("expandable", <<g, e.args[i]>>)
    ELSE IF g = "legacy" THEN FALSE
    ELSE \E i \in DOMAIN e.args : call("expandable", <<g, e.args[i]>>)

\* itertools.product over a sequence of sequences
RECURSIVE cartesian(_)
cartesian(ss) ==
    IF ss = <<>> THEN << <<>> >>
    ELSE LET tl == cartesian(Tail(ss))
         IN FlatMap(ss[1], LAMBDA h : [i \in DOMAIN tl |-> <<h>> \o tl[i]])

\* expand(): Sum.expand, Prod.expand, Power.expand
expand(g, e) ==
    LET ex(t) == IF call("expandable", <<g, t>>) THEN call("expand", <<g, t>>) ELSE t
    IN IF e.tag = "Sum" THEN Sum(flatten([i \in DOMAIN e.args |-> ex(e.args[i])], "Sum"))
       ELSE IF e.tag = "Power"
       THEN call("expand", <<g, Prod([i \in 1 .. e.args[2].val |-> e.args[1]])>>)
       ELSE LET nd == call("numerator_denominator", <<e>>)
                denom == IF g = "legacy" THEN One
                         ELSE IF call("expandable", <<g, nd[2]>>) THEN call("expand", <<g, nd[2]>>) ELSE nd[2]
                num == IF g = "legacy" THEN e
                       ELSE IF nd[1].tag = "Prod" THEN nd[1] ELSE Prod(<<nd[1]>>)
                expanded_terms == flatten([i \in DOMAIN num.args |-> ex(num.args[i])], "Prod")
                sums == SelectIdx(expanded_terms, LAMBDA t : t.tag = "Sum")
                other == SelectIdx(expanded_terms, LAMBDA t : t.tag # "Sum")
                combos == cartesian([i \in DOMAIN sums |-> sums[i].args])
            IN IF sums = <<>> THEN call("simplify", <<Div(Prod(expanded_terms), denom)>>)
               ELSE call("Sum_simplify", <<[i \in DOMAIN combos |-> Div(Prod(other \o combos[i]), denom)]>>)

\* diff(): derivative with respect to the symbol var; DiffError marks the
\* NotImplementedError of Power.diff (var in both base and exponent)
DiffError == [tag |-> "DiffError", val |-> 0, den |-> 1, args |-> <<>>]

diff(e, var) ==
    LET inner == e.args[1]
        din == call("diff", <<e.args[1], var>>)
        v == Symbol(var)
    IN CASE e.tag = "Const" -> Zero
         [] e.tag = "Symbol" -> IF e.val = var THEN One ELSE Zero
         [] e.tag = "Sum" -> Sum(List([i \in DOMAIN e.args |-> call("diff", <<e.args[i], var>>)]))
         [] e.tag = "Prod" ->
              Sum([i \in DOMAIN e.args |-> Prod(<<call("diff", <<e.args[i], var>>)>> \o RemoveAt(e.args, i))])
         [] e.tag = "Power" ->
              IF ~contains(e.args[2], var)
              THEN Prod(<<e.args[2], Power(e.args[1], Sum(<<e.args[2], Const(-1, 1)>>)), din>>)
              ELSE IF ~contains(e.args[1], var)
              THEN Prod(<<Log(e.args[1]), e, call("diff", <<e.args[2], var>>)>>)
              ELSE DiffError
         [] e.tag = "Log" -> Div(din, inner)
         [] e.tag = "Sin" -> Prod(<<Cos(inner), din>>)
         [] e.tag = "Cos" -> Prod(<<Const(-1, 1), Sin(inner), din>>)
         [] e.tag = "Tan" -> Prod(<<Power(Sec(inner), Const(2, 1)), din>>)
         [] e.tag = "Sec" -> Prod(<<Sec(inner), Tan(inner), din>>)
         [] e.tag = "Csc" -> call("diff", <<Div(One, Sin(inner)), var>>)
         [] e.tag = "Cot" -> call("diff", <<Div(One, Tan(inner)), var>>)
         [] e.tag = "ArcSin" ->
              Prod(<<Div(One, sqrt(Sum(<<One, Neg(Power(inner, Const(2, 1)))>>))), din>>)
         [] e.tag = "ArcCos" ->
              Prod(<<Div(Const(-1, 1), sqrt(Sum(<<One, Neg(Power(inner, Const(2, 1)))>>))), din>>)
         [] e.tag = "ArcTan" ->
              Prod(<<Div(One, Sum(<<One, Power(inner, Const(2, 1))>>)), din>>)
         [] OTHER -> DiffError

RECURSIVE has_diff_error(_)
has_diff_error(e) ==
    e.tag = "DiffError" \/ \E i \in DOMAIN e.args : has_diff_error(e.args[i])

\* ------------------------------------------------------------ polynomials
\* to_const_polynomial (polynomial.py): the dense coefficient vector of expr
\* in var; the conversion fails (AssertionError) when a term is not a
\* coefficient free of var times a non-negative integer power of var.
\* term_degree is the power of var in one term, -1 when the term is no monomial.
term_degree(t, var) ==
    LET powdeg(f) == IF f = Symbol(var) THEN 1
                     ELSE IF f.tag = "Power" /\ f.args[1] = Symbol(var) /\ IsConst(f.args[2])
                             /\ f.args[2].den = 1 /\ f.args[2].val >= 0
                          THEN f.args[2].val
                     ELSE -1
    IN IF ~contains(t, var) THEN 0
       ELSE IF t.tag = "Prod"
            THEN LET vf == SelectIdx(t.args, LAMBDA f : contains(f, var))
                 IN IF Len(vf) = 1 THEN powdeg(vf[1]) ELSE -1
       ELSE powdeg(t)

\* the terms the conversion reads: the numerator and the denominator of a
\* fraction come as products of sums, which it multiplies out first
poly_terms(expr) ==
    LET e == IF call("expandable", <<"pkg", expr>>) THEN call("expand", <<"pkg", expr>>) ELSE expr
    IN IF e.tag = "Sum" THEN e.args ELSE <<e>>

\* len(to_const_polynomial(expr, var)); 0 stands for the AssertionError
polynomial_len(expr, var) ==
    LET ts == call("poly_terms", <<expr>>)
        degs == [i \in DOMAIN ts |-> term_degree(ts[i], var)]
    IN IF \E i \in DOMAIN degs : degs[i] < 0 THEN 0 ELSE 1 + SeqMax(degs)

\* ------------------------------------------------- polynomial long division
\* to_const_polynomial / polynomial_to_expr (polynomial.py): dense coefficient
\* vectors indexed by power
term_coeff(t, var) ==
    IF ~contains(t, var) THEN t
    ELSE IF t.tag = "Prod" THEN call("Prod_simplify", <<SelectIdx(t.args, LAMBDA f : ~contains(f, var))>>)
    ELSE One

to_const_polynomial(expr, var) ==
    LET ts == call("poly_terms", <<expr>>)
        at(d) == SelectIdx(ts, LAMBDA t : term_degree(t, var) = d)
    IN [k \in 1 .. call("polynomial_len", <<expr, var>>) |->
           call("Sum_simplify", <<[i \in DOMAIN at(k - 1) |-> call("term_coeff", <<at(k - 1)[i], var>>)]>>)]

polynomial_to_expr(poly, var) ==
    Sum([k \in DOMAIN poly |-> Prod(<<poly[k], Power(Symbol(var), Const(k - 1, 1))>>)])

\* rid_ending_zeros: the coefficients in simplified form, without the zeros
\* at the high end
rid_ending_zeros(poly) ==
    LET coeffs == List([k \in DOMAIN poly |-> call("simplify", <<poly[k]>>)])
        last == IF \A k \in DOMAIN coeffs : coeffs[k] = Zero THEN 0
                ELSE CHOOSE k \in DOMAIN coeffs :
                        coeffs[k] # Zero /\ \A j \in DOMAIN coeffs : j > k => coeffs[j] = Zero
    IN SubSeq(coeffs, 1, last)

\* a round of the loop that drops the leading term of the numerator without
\* subtracting the shifted denominator from the terms below it
divide_step_drops_leading(numerator, denominator) ==
    LET quotient_degree == Len(numerator) - Len(denominator)
        quotient_coeff == call("simplify", <<Div(numerator[Len(numerator)], denominator[Len(denominator)])>>)
    IN [quotient_degree |-> quotient_degree, quotient_coeff |-> quotient_coeff,
        numerator |-> rid_ending_zeros(SubSeq(numerator, 1, Len(numerator) - 1))]

\* one round of the while loop of PolynomialDivision.forward, lines 211-218:
\* the entry of the quotient it sets and the numerator it leaves
divide_step(numerator, denominator) ==
    LET quotient_degree == Len(numerator) - Len(denominator)
        quotient_coeff == call("simplify", <<Div(numerator[Len(numerator)], denominator[Len(denominator)])>>)
        shifted == [k \in DOMAIN numerator |->
                       IF k <= quotient_degree THEN Zero
                       ELSE Prod(<<denominator[k - quotient_degree], quotient_coeff>>)]
        sub == [k \in DOMAIN numerator |-> Sum(<<numerator[k], Neg(shifted[k])>>)]
    IN [quotient_degree |-> quotient_degree, quotient_coeff |-> quotient_coeff,
        numerator |-> rid_ending_zeros(sub)]

\* the while loop of PolynomialDivision.forward: <<quotient, remainder>>
divide(numerator, denominator, quotient) ==
    IF Len(numerator) < Len(denominator) THEN <<quotient, numerator>>
    ELSE LET step == call("divide_step", <<numerator, denominator>>)
         IN call("divide", <<step.numerator, denominator,
                   [quotient EXCEPT ![step.quotient_degree + 1] = step.quotient_coeff]>>)

\* ------------------------------------------------------- safe transforms
\* A check returns what the transform object stashes for forward/backward:
\*   ok    the boolean result          err   the exception raised, "" if none
\*   data  _constant or _variable_change      aux   the stashed new integrand
CheckNo == [ok |-> FALSE, err |-> "", data |-> NoExpr, aux |-> NoExpr, key |-> ""]
CheckYes(data, aux, key) == [ok |-> TRUE, err |-> "", data |-> data, aux |-> aux, key |-> key]
CheckRaise(e) == [ok |-> FALSE, err |-> e, data |-> NoExpr, aux |-> NoExpr, key |-> ""]

Additivity_check(g, node) ==
    IF node.expr.tag = "Sum" THEN CheckYes(NoExpr, NoExpr, "") ELSE CheckNo

PullConstant_check(g, node) ==
    LET expr == node.expr
        var == node.var
        is_nonvar_symbol(t) == t.tag = "Symbol" /\ t.val # var
        is_nonvar_power(t) == t.tag = "Power" /\ t.args[1].tag = "Symbol" /\ t.args[1].val # var
        hits == IF g = "legacy"
                THEN {i \in DOMAIN expr.args : is_nonvar_symbol(expr.args[i]) \/ is_nonvar_power(expr.args[i])}
                ELSE {i \in DOMAIN expr.args : var \notin symbols(expr.args[i])}
    IN IF expr.tag # "Prod" THEN CheckNo
       ELSE IF g = "legacy" /\ IsConst(expr.args[1])
            THEN CheckYes(expr.args[1], call("Prod_simplify", <<Tail(expr.args)>>), "")
       ELSE IF hits # {}
            THEN CheckYes(expr.args[SetMin(hits)], call("Prod_simplify", <<RemoveAt(expr.args, SetMin(hits))>>), "")
       ELSE CheckNo

\* invert (linalg.py): the inverse of a 2x2 rational matrix, <<>> (None)
\* when the matrix is singular
invert(matrix) ==
    LET a == matrix[1][1]
        b == matrix[1][2]
        c == matrix[2][1]
        d == matrix[2][2]
        det == FracAdd(FracMul(a, d), FracMul(Const(-1, 1), FracMul(b, c)))
        over(e) == Fraction(e.val * det.den, e.den * det.val)
    IN IF det = Zero THEN <<>>
       ELSE << <<over(d), over(FracMul(Const(-1, 1), b))>>,
               <<over(FracMul(Const(-1, 1), c)), over(a)>> >>

\* PartialFractions.check lines 779-829.  np.array([d2_list, d1_list]).T is
\* the matrix whose columns are the two factors; a matrix that is not 2x2, or
\* a numerator vector longer than the inverse is wide, is the ValueError of
\* numpy (rows of unequal length, or inv @ numerator_list of unequal sizes).
PartialFractions_check(g, node) ==
    LET nd == call("numerator_denominator", <<node.expr>>)
        num_len == call("polynomial_len", <<nd[1], node.var>>)
        den_len == call("polynomial_len", <<nd[2], node.var>>)
        numerator_list == call("to_const_polynomial", <<nd[1], node.var>>)
        new == call("Sum_factor", <<nd[2].args>>)
        denom == IF nd[2].tag = "Sum" THEN new ELSE nd[2]
        d1 == denom.args[1]
        d2 == denom.args[2]
        d1_list == call("to_const_polynomial", <<d1, node.var>>)
        d2_list == call("to_const_polynomial", <<d2, node.var>>)
        numbers == \A k \in {1, 2} : IsConst(d1_list[k]) /\ IsConst(d2_list[k])
        matrix == << <<d2_list[1], d1_list[1]>>, <<d2_list[2], d1_list[2]>> >>
        inv == invert(matrix)
        padded == IF Len(numerator_list) = 1 THEN <<numerator_list[1], Zero>> ELSE numerator_list
        ans == [i \in {1, 2} |->
                   call("simplify", <<Sum(<<Prod(<<inv[i][1], padded[1]>>), Prod(<<inv[i][2], padded[2]>>)>>)>>)]
    IN IF node.expr.tag # "Prod" THEN CheckNo
       ELSE IF nd[2] = One THEN CheckNo
       ELSE IF num_len = 0 \/ den_len = 0 THEN CheckNo
       ELSE IF num_len > den_len THEN CheckNo
       ELSE IF nd[2].tag \notin {"Prod", "Sum"} THEN CheckNo
       ELSE IF nd[2].tag = "Sum" /\ new.tag # "Prod" THEN CheckNo
       ELSE IF Len(denom.args) # 2 THEN CheckNo
       ELSE IF ~(contains(d1, node.var) /\ contains(d2, node.var)) THEN CheckNo
       ELSE IF Len(d1_list) = 0 \/ Len(d2_list) = 0 THEN CheckRaise("AssertionError")
       ELSE IF Len(d1_list) # 2 \/ Len(d2_list) # 2 \/ ~numbers THEN CheckRaise("ValueError")
       ELSE IF inv = <<>> THEN CheckNo
       ELSE IF Len(padded) # 2 THEN CheckRaise("ValueError")
       ELSE CheckYes(NoExpr, Sum(<<Div(ans[1], d1), Div(ans[2], d2)>>), "")

\* legacy PolynomialDivision.check lines 173-240; pkg lines 181-206
PolynomialDivision_check(g, node) ==
    LET expr == node.expr
        var == node.var
        RECURSIVE contains_singlefunc_w_inner(_)
        contains_singlefunc_w_inner(e) ==
            \/ e.tag \notin {"Const", "Symbol", "Sum", "Prod", "Power"} /\ contains(e.args[1], var)
            \/ \E i \in DOMAIN e.args : contains_singlefunc_w_inner(e.args[i])
        \* _is_polynomial(factor): "T", "F" or the exception it raises
        is_polynomial(f) ==
            IF f.tag = "Power"
            THEN (IF IsConst(f.args[2]) /\ f.args[2].den = 1 THEN "T" ELSE "F")
            ELSE IF f.tag \in {"Const", "Symbol"} THEN "T"
            ELSE IF f.tag = "Sum" THEN "TypeError"
            ELSE "NotImplementedError"
        RECURSIVE scan(_)
        scan(i) == IF i > Len(expr.args) THEN "T"
                   ELSE IF is_polynomial(expr.args[i]) = "T" THEN scan(i + 1)
                   ELSE is_polynomial(expr.args[i])
        positive(f) == LET x == deconstruct_power(f)[2] IN x.val > 0
        nd == call("numerator_denominator", <<expr>>)
        \* lines 217-227: factors with a positive exponent against the others
        numerator == call("Prod_simplify", <<SelectIdx(expr.args, positive)>>)
        denominator ==
            LET neg == SelectIdx(expr.args, LAMBDA f : ~positive(f))
            IN call("Prod_simplify", <<[i \in DOMAIN neg |->
                   call("Power_simplify", <<deconstruct_power(neg[i])[1], Neg(deconstruct_power(neg[i])[2])>>)]>>)
        num_len == call("polynomial_len", <<IF g = "legacy" THEN numerator ELSE nd[1], var>>)
        den_len == call("polynomial_len", <<IF g = "legacy" THEN denominator ELSE nd[2], var>>)
    IN IF symbols(expr) # {var} THEN CheckNo
       ELSE IF expr.tag # "Prod" THEN CheckNo
       ELSE IF g = "legacy"
            THEN IF contains_singlefunc_w_inner(expr) THEN CheckNo
                 ELSE IF scan(1) = "F" THEN CheckNo
                 ELSE IF scan(1) # "T" THEN CheckRaise(scan(1))
                 ELSE IF (\A i \in DOMAIN expr.args : positive(expr.args[i]))
                         \/ (\A i \in DOMAIN expr.args : ~positive(expr.args[i]))
                      THEN CheckRaise("AttributeError")
                 ELSE IF num_len = 0 \/ den_len = 0 THEN CheckNo
                 ELSE IF num_len < den_len THEN CheckNo
                 ELSE CheckYes(call("to_const_polynomial", <<numerator, var>>),
                               call("to_const_polynomial", <<denominator, var>>), "")
       ELSE IF nd[2] = One THEN CheckNo
       ELSE IF num_len = 0 \/ den_len = 0 THEN CheckNo
       ELSE IF num_len < den_len THEN CheckNo
       ELSE CheckYes(call("to_const_polynomial", <<nd[1], var>>), call("to_const_polynomial", <<nd[2], var>>), "")

Expand_check(g, node) ==
    IF call("expandable", <<g, node.expr>>) THEN CheckYes(NoExpr, NoExpr, "") ELSE CheckNo

\* LinearUSub.check lines 499-532
LinearUSub_check(g, node) ==
    LET var == node.var
        linear(c) == ~contains(call("simplify", <<Div(c, Symbol(var))>>), var)
        is_a_linear_sum_or_prod(e) ==
            IF e.tag = "Sum"
            THEN \A i \in DOMAIN e.args : ~contains(e.args[i], var) \/ linear(e.args[i])
            ELSE IF e.tag = "Prod" THEN linear(e)
            ELSE FALSE
        \* the linear sub-expressions _check meets, in the order it meets them
        RECURSIVE found(_)
        found(e) == IF ~contains(e, var) THEN <<>>
                    ELSE IF is_a_linear_sum_or_prod(e) THEN <<e>>
                    ELSE FlatMap(e.args, found)
        RECURSIVE covered(_)
        covered(e) == IF ~contains(e, var) THEN TRUE
                      ELSE IF is_a_linear_sum_or_prod(e) THEN TRUE
                      ELSE IF e.args = <<>> THEN FALSE
                      ELSE \A i \in DOMAIN e.args : covered(e.args[i])
        fs == found(node.expr)
    IN IF count(node.expr, Symbol(var)) < 1 THEN CheckNo
       ELSE IF covered(node.expr) /\ \A i \in DOMAIN fs : fs[i] = fs[1]
            THEN CheckYes(fs[1], NoExpr, "")
       ELSE CheckNo

\* what a forward() does to its node: mode "set" is node.children = [...],
\* mode "append" is node.children.append / +=; type is the kind it assigns
\* ("" when it assigns none); a kid is a Node(...) call, sub its own children
Kid(expr, var, tr, type, sol, sub) ==
    [expr |-> expr, var |-> var, transform |-> tr, type |-> type, solution |-> sol, sub |-> sub]
Forward(mode, type, kids) == [mode |-> mode, type |-> type, kids |-> kids]
\* forward is not called when check is false
NoForward == Forward("none", "", <<>>)

\* Additivity.forward that iterates over terms[:-1]
Additivity_forward_short(g, node, chk, fresh) ==
    Forward("set", "AND",
            [i \in 1 .. Len(node.expr.args) - 1 |->
                Kid(node.expr.args[i], node.var, Transform("Additivity", NoExpr), "UNSET", NoExpr, <<>>)])

Additivity_forward(g, node, chk, fresh) ==
    Forward("set", "AND",
            [i \in DOMAIN node.expr.args |->
                Kid(node.expr.args[i], node.var, Transform("Additivity", NoExpr), "UNSET", NoExpr, <<>>)])

PullConstant_forward(g, node, chk, fresh) ==
    Forward("set", "",
            <<Kid(chk.aux, node.var, Transform("PullConstant", chk.data), "UNSET", NoExpr, <<>>)>>)

Expand_forward(g, node, chk, fresh) ==
    Forward(IF g = "legacy" THEN "set" ELSE "append", "",
            <<Kid(call("expand", <<g, node.expr>>), node.var, Transform("Expand", NoExpr), "UNSET", NoExpr, <<>>)>>)

LinearUSub_forward(g, node, chk, fresh) ==
    LET du_dx == call("diff", <<chk.data, node.var>>)
        new_integrand == call("simplify", <<Div(replace(node.expr, chk.data, Symbol(fresh)), du_dx)>>)
    IN Forward("append", "",
               <<Kid(new_integrand, fresh, Transform("LinearUSub", chk.data), "UNSET", NoExpr, <<>>)>>)

\* ------------------------------------------------- elementary antiderivatives
\* legacy _check_if_solvable lines 435-452: the answer, NoExpr for None
check_if_solvable(expr, var) ==
    LET n == expr.args[2]
        v == Symbol(var)
    IN IF expr.tag = "Power"
       THEN IF expr.args[1] = v /\ IsConst(n)
            THEN IF n # Const(-1, 1)
                 THEN Prod(<<Prod(<<One, Power(Sum(<<n, One>>), Const(-1, 1))>>),
                             Power(v, Sum(<<n, One>>))>>)
                 ELSE Log(expr.args[1])
            ELSE IF expr.args[1].tag = "Symbol" /\ expr.args[1] # v THEN Prod(<<expr, v>>)
            ELSE NoExpr
       ELSE IF expr.tag = "Symbol"
       THEN IF expr = v THEN Prod(<<Const(1, 2), Power(v, Const(2, 1))>>) ELSE Prod(<<expr, v>>)
       ELSE IF expr.tag = "Const" THEN Prod(<<expr, v>>)
       ELSE NoExpr

\* pkg _check_if_solveable lines 994-1011; the STANDARD_TRIG_INTEGRALS key is
\* the text of the integrand with var renamed to x
check_if_solveable(integrand, var) ==
    LET n == integrand.args[2]
        base == integrand.args[1]
        v == Symbol(var)
    IN IF ~contains(integrand, var) THEN call("simplify", <<Prod(<<integrand, v>>)>>)
       ELSE IF integrand.tag = "Power" /\ base = v /\ ~contains(n, var)
       THEN IF n # Const(-1, 1)
            THEN call("simplify", <<Prod(<<Prod(<<One, Power(Sum(<<n, One>>), Const(-1, 1))>>),
                                 Power(v, Sum(<<n, One>>))>>)>>)
            ELSE call("simplify", <<Log(base)>>)
       ELSE IF integrand.tag = "Power" /\ n = v /\ ~contains(base, var)
       THEN call("simplify", <<Prod(<<Prod(<<One, Power(Log(base), Const(-1, 1))>>), integrand>>)>>)
       ELSE IF integrand = v THEN call("simplify", <<Prod(<<Const(1, 2), Power(v, Const(2, 1))>>)>>)
       ELSE IF integrand = Sin(v) THEN call("simplify", <<Neg(Cos(v))>>)
       ELSE IF integrand = Cos(v) THEN call("simplify", <<Sin(v)>>)
       ELSE IF integrand = Power(Sec(v), Const(2, 1)) THEN call("simplify", <<Tan(v)>>)
       ELSE IF integrand = Sec(v) THEN call("simplify", <<Log(Sum(<<Tan(v), Sec(v)>>))>>)
       ELSE NoExpr

\* the table the scheduler consults for generation g
table(g, expr, var) ==
    IF g = "legacy" THEN call("check_if_solvable", <<expr, var>>) ELSE call("check_if_solveable", <<expr, var>>)

\* --------------------------------------------------------- loop prevention
RECURSIVE get_last_heuristic_transform(_, _)
get_last_heuristic_transform(T, n) ==
    IF T[n].transform.cls \in {"PullConstant", "Expand", "Additivity"}
    THEN get_last_heuristic_transform(T, T[n].parent)
    ELSE T[n].transform

Inv(a) == Power(a, Const(-1, 1))
Csc(e) == SingleFunc("Csc", e)
Cot(e) == SingleFunc("Cot", e)

\* the three (cls, newfunc) lists of RewriteTrig.forward / A.forward; NoExpr
\* for a class the list does not name
newfunc(r, cls, x) ==
    CASE r = 1 /\ cls = "Tan" -> Div(Sin(x), Cos(x))
      [] r = 1 /\ cls = "Csc" -> Prod(<<One, Inv(Sin(x))>>)
      [] r = 1 /\ cls = "Cot" -> Div(Cos(x), Sin(x))
      [] r = 1 /\ cls = "Sec" -> Prod(<<One, Inv(Cos(x))>>)
      [] r = 2 /\ cls = "Sin" -> Prod(<<One, Inv(Csc(x))>>)
      [] r = 2 /\ cls = "Cos" -> Div(Prod(<<One, Inv(Tan(x))>>), Csc(x))
      [] r = 2 /\ cls = "Cot" -> Prod(<<One, Inv(Tan(x))>>)
      [] r = 2 /\ cls = "Sec" -> Prod(<<Tan(x), Csc(x)>>)
      [] r = 3 /\ cls = "Sin" -> Div(Prod(<<One, Inv(Cot(x))>>), Sec(x))
      [] r = 3 /\ cls = "Cos" -> Prod(<<One, Inv(Sec(x))>>)
      [] r = 3 /\ cls = "Tan" -> Prod(<<One, Inv(Cot(x))>>)
      [] r = 3 /\ cls = "Csc" -> Prod(<<Cot(x), Sec(x)>>)
      [] OTHER -> NoExpr

\* replace_class: every SingleFunc of a listed class is rebuilt by its
\* newfunc from its rewritten inner
replace_class(expr, r) ==
    IF expr.tag \in {"Const", "Symbol"} THEN expr
    ELSE IF expr.tag \in {"Sum", "Prod", "Power"}
    THEN [expr EXCEPT !.args = List([i \in DOMAIN expr.args |-> call("replace_class", <<expr.args[i], r>>)])]
    ELSE LET new_inner == call("replace_class", <<expr.args[1], r>>)
         IN IF call("newfunc", <<r, expr.tag, new_inner>>) # NoExpr THEN call("newfunc", <<r, expr.tag, new_inner>>)
            ELSE SingleFunc(expr.tag, new_inner)

\* stuff after "for thing in stuff: if repr(thing) == repr(expr): stuff.remove(thing)":
\* removing while iterating skips the element that follows a removed one
rewrite_options(expr) ==
    LET r1 == call("simplify", <<replace_class(expr, 1)>>)
        r2 == call("simplify", <<replace_class(expr, 2)>>)
        r3 == call("simplify", <<replace_class(expr, 3)>>)
    IN IF r1 = expr THEN (IF r3 = expr THEN <<r2>> ELSE <<r2, r3>>)
       ELSE IF r2 = expr THEN <<r1, r3>>
       ELSE IF r3 = expr THEN <<r1, r2>>
       ELSE <<r1, r2, r3>>

\* ------------------------------------------------- heuristic transforms
One_kid(mode, type, expr, var, tr) ==
    Forward(mode, type, <<Kid(expr, var, tr, "UNSET", NoExpr, <<>>)>>)

\* legacy B_Tan lines 301-326
B_Tan_check(T, n) ==
    LET node == T[n]
    IN IF contains_cls(node.expr, {"Tan"})
          /\ count(node.expr, Tan(Symbol(node.var))) = count(node.expr, Symbol(node.var))
       THEN CheckYes(Tan(Symbol(node.var)), NoExpr, "") ELSE CheckNo

B_Tan_forward(g, node, chk, fresh) ==
    LET intermediate == Symbol(fresh)
        new_integrand == Div(replace(node.expr, Tan(Symbol(node.var)), intermediate),
                             Sum(<<One, Power(intermediate, Const(2, 1))>>))
    IN One_kid("set", "", new_integrand, fresh, Transform("B_Tan", chk.data))

\* legacy A lines 329-380
A_check(T, n) ==
    IF T[n].transform.cls = "A" THEN CheckNo
    ELSE IF contains_cls(T[n].expr, TrigFunction) THEN CheckYes(NoExpr, NoExpr, "") ELSE CheckNo

A_forward(g, node, chk, fresh) ==
    LET stuff == call("rewrite_options", <<node.expr>>)
    IN Forward("set", "OR",
               [i \in DOMAIN stuff |->
                   Kid(stuff[i], node.var, Transform("A", NoExpr), "UNSET", NoExpr, <<>>)])

\* legacy C_Sin lines 383-406: check looks for the text "(1 + (-1 * x^2))" in
\* repr(expr); Prod.__repr__ joins factors with "*" and prints -1*t as "-t",
\* so no expression has that text
C_Sin_check(T, n) == CheckNo

C_Sin_forward(g, node, chk, fresh) ==
    LET intermediate_var == Symbol(fresh)
        new_thing == call("simplify", <<Prod(<<replace(node.expr, Symbol(node.var), Sin(intermediate_var)),
                                     Cos(intermediate_var)>>)>>)
    IN One_kid("set", "", new_thing, fresh, Transform("C_Sin", ArcSin(Symbol(node.var))))

\* legacy C_Tan lines 409-428: check looks for the text "1 + x^2" in
\* repr(expr), which a Sum prints for a term 1 followed by the term x^2
RECURSIVE has_one_plus_square(_, _)
has_one_plus_square(e, var) ==
    \/ /\ e.tag = "Sum"
       /\ \E i \in 1 .. Len(e.args) - 1 :
              e.args[i] = One /\ e.args[i + 1] = Power(Symbol(var), Const(2, 1))
    \/ \E i \in DOMAIN e.args : has_one_plus_square(e.args[i], var)

C_Tan_check(T, n) ==
    IF has_one_plus_square(T[n].expr, T[n].var)
    THEN CheckYes(ArcTan(Symbol(T[n].var)), NoExpr, "") ELSE CheckNo

C_Tan_forward(g, node, chk, fresh) ==
    LET intermediate == Symbol(fresh)
        dy_dx == Power(Sec(intermediate), Const(2, 1))
        new_thing == call("simplify", <<Prod(<<replace(node.expr, Symbol(node.var), Tan(intermediate)), dy_dx>>)>>)
    IN One_kid("set", "", new_thing, fresh, Transform("C_Tan", chk.data))

\* pkg TrigUSub2 lines 283-333
TrigUSub2_check(T, n) ==
    LET node == T[n]
        v == Symbol(node.var)
        hit(cls) == LET count_ == count(node.expr, SingleFunc(cls, v))
                    IN count_ >= 1 /\ count_ = count(node.expr, v)
    IN IF get_last_heuristic_transform(T, n).cls = "InverseTrigUSub" THEN CheckNo
       ELSE IF hit("Sin") THEN CheckYes(Sin(v), NoExpr, "sin")
       ELSE IF hit("Cos") THEN CheckYes(Cos(v), NoExpr, "cos")
       ELSE IF hit("Tan") THEN CheckYes(Tan(v), NoExpr, "tan")
       ELSE CheckNo

TrigUSub2_forward(g, node, chk, fresh) ==
    LET intermediate == Symbol(fresh)
        one_minus == Sum(<<One, Neg(Power(intermediate, Const(2, 1)))>>)
        dy_dx == CASE chk.key = "sin" -> Prod(<<One, Inv(sqrt(one_minus))>>)
                   [] chk.key = "cos" -> Prod(<<Const(-1, 1), Inv(sqrt(one_minus))>>)
                   [] OTHER -> Prod(<<One, Inv(Sum(<<One, Power(intermediate, Const(2, 1))>>))>>)
        new_integrand == Prod(<<replace(node.expr, chk.data, intermediate), dy_dx>>)
    IN One_kid("append", "", new_integrand, fresh, Transform("TrigUSub2", chk.data))

\* RewriteTrig.check without the test of the last heuristic transform
RewriteTrig_check_unguarded(T, n) ==
    IF contains_cls(T[n].expr, TrigFunction) THEN CheckYes(NoExpr, NoExpr, "") ELSE CheckNo

\* pkg RewriteTrig lines 336-390
RewriteTrig_check(T, n) ==
    IF get_last_heuristic_transform(T, n).cls = "RewriteTrig" THEN CheckNo
    ELSE IF contains_cls(T[n].expr, TrigFunction) THEN CheckYes(NoExpr, NoExpr, "") ELSE CheckNo

RewriteTrig_forward(g, node, chk, fresh) ==
    LET stuff == call("rewrite_options", <<node.expr>>)
    IN Forward("append", "OR",
               [i \in DOMAIN stuff |->
                   Kid(stuff[i], node.var, Transform("RewriteTrig", NoExpr), "UNSET", NoExpr, <<>>)])

\* pkg InverseTrigUSub lines 393-431
InverseTrigUSub_check(T, n) ==
    LET node == T[n]
        v == Symbol(node.var)
        q_sin == Sum(<<One, Neg(Power(v, Const(2, 1)))>>)
        q_tan == Sum(<<One, Power(v, Const(2, 1))>>)
        hit(query) == count(node.expr, query) > 0
                      \/ count(node.expr, call("simplify", <<Prod(<<query, Const(-1, 1)>>)>>)) > 0
    IN IF get_last_heuristic_transform(T, n).cls = "TrigUSub2" THEN CheckNo
       ELSE IF hit(q_sin) THEN CheckYes(ArcSin(v), NoExpr, "sin")
       ELSE IF hit(q_tan) THEN CheckYes(ArcTan(v), NoExpr, "tan")
       ELSE CheckNo

InverseTrigUSub_forward(g, node, chk, fresh) ==
    LET intermediate == Symbol(fresh)
        cls == IF chk.key = "sin" THEN "Sin" ELSE "Tan"
        dy_dx == IF chk.key = "sin" THEN Cos(intermediate)
                 ELSE Power(Sec(intermediate), Const(2, 1))
        new_thing == call("simplify", <<Prod(<<replace(node.expr, Symbol(node.var), SingleFunc(cls, intermediate)),
                                     dy_dx>>)>>)
    IN One_kid("append", "", new_thing, fresh, Transform("InverseTrigUSub", chk.data))

\* pkg PolynomialUSub lines 434-487
PolynomialUSub_check(T, n) ==
    LET node == T[n]
        v == Symbol(node.var)
        terms == node.expr.args
        is_pow(t) == t.tag = "Power" /\ t.args[1] = v /\ ~contains(t.args[2], node.var)
        hits == {i \in DOMAIN terms : is_pow(terms[i]) \/ terms[i] = v}
        i0 == SetMin(hits)
        nn == IF is_pow(terms[i0]) THEN call("simplify", <<Sum(<<terms[i0].args[2], One>>)>>) ELSE Const(2, 1)
        rest == call("Prod_simplify", <<RemoveAt(terms, i0)>>)
        variable_change == call("Power_simplify", <<v, nn>>)
        count_ == count(node.expr, variable_change)
    IN IF node.expr.tag # "Prod" THEN CheckNo
       ELSE IF hits = {} THEN CheckNo
       ELSE IF nn = Zero THEN CheckNo
       ELSE IF count_ > 0 /\ count_ = count(rest, v) THEN CheckYes(variable_change, NoExpr, "")
       ELSE CheckNo

PolynomialUSub_forward(g, node, chk, fresh) ==
    LET dx_dy == call("diff", <<chk.data, node.var>>)
        new_integrand == call("simplify", <<Div(replace(node.expr, chk.data, Symbol(fresh)), dx_dy)>>)
    IN One_kid("append", "", new_integrand, fresh, Transform("PolynomialUSub", chk.data))

\* pkg CompoundAngle lines 548-584
compound(e) == e.tag \in {"Sin", "Cos"} /\ e.args[1].tag = "Sum" /\ Len(e.args[1].args) = 2

RECURSIVE has_compound(_)
has_compound(e) == compound(e) \/ \E i \in DOMAIN e.args : has_compound(e.args[i])

CompoundAngle_check(T, n) ==
    IF has_compound(T[n].expr) THEN CheckYes(NoExpr, NoExpr, "") ELSE CheckNo

perform_compound(e) ==
    LET a == e.args[1].args[1]
        b == e.args[1].args[2]
    IN IF compound(e)
       THEN IF e.tag = "Sin"
            THEN Sum(<<Prod(<<Sin(a), Cos(b)>>), Prod(<<Cos(a), Sin(b)>>)>>)
            ELSE Sum(<<Prod(<<Cos(a), Cos(b)>>), Neg(Prod(<<Sin(a), Sin(b)>>))>>)
       ELSE [e EXCEPT !.args = List([i \in DOMAIN e.args |-> call("perform_compound", <<e.args[i]>>)])]

CompoundAngle_forward(g, node, chk, fresh) ==
    One_kid("append", "", call("perform_compound", <<node.expr>>), node.var, Transform("CompoundAngle", NoExpr))

\* pkg SinUSub lines 587-657
SinUSub_check(T, n) ==
    LET node == T[n]
        v == Symbol(node.var)
        terms == node.expr.args
        is_constant_product_of_var(e) == e = v \/ ~contains(call("simplify", <<Div(e, v)>>), node.var)
        ok(t) == t.tag \in {"Sin", "Cos"} /\ is_constant_product_of_var(t.args[1])
        \* the first term that finds an earlier partner of the other class
        pairs == {<<i, j>> \in (DOMAIN terms) \X (DOMAIN terms) :
                     /\ j < i /\ ok(terms[i]) /\ ok(terms[j])
                     /\ terms[i].tag # terms[j].tag /\ terms[i].args[1] = terms[j].args[1]}
        i0 == SetMin({p[1] : p \in pairs})
        j0 == SetMin({p[2] : p \in {q \in pairs : q[1] = i0}})
        sin_ == IF terms[i0].tag = "Sin" THEN terms[i0] ELSE terms[j0]
    IN IF node.expr.tag # "Prod" THEN CheckNo
       ELSE IF pairs = {} THEN CheckNo
       ELSE CheckYes(sin_, NoExpr, "")

SinUSub_forward(g, node, chk, fresh) ==
    LET dy_dx == call("diff", <<chk.data, node.var>>)
        new_integrand == Div(replace(node.expr, chk.data, Symbol(fresh)), dy_dx)
    IN One_kid("append", "", new_integrand, fresh, Transform("SinUSub", chk.data))

\* pkg ProductToSum lines 660-697
ProductToSum_check(T, n) ==
    LET e == T[n].expr
    IN IF e.tag = "Prod" /\ Len(e.args) = 2 /\ \A i \in DOMAIN e.args : e.args[i].tag \in {"Sin", "Cos"}
       THEN CheckYes(e.args[1], e.args[2], "")
       ELSE IF e.tag = "Power" /\ e.args[1].tag \in {"Sin", "Cos"} /\ e.args[2] = Const(2, 1)
       THEN CheckYes(e.args[1], e.args[1], "")
       ELSE CheckNo

ProductToSum_forward(g, node, chk, fresh) ==
    LET a == chk.data
        b == chk.aux
        plus == Sum(<<a.args[1], b.args[1]>>)
        minus == Sum(<<a.args[1], Neg(b.args[1])>>)
        temp == IF a.tag = "Sin" /\ b.tag = "Cos" THEN Sum(<<Sin(plus), Sin(minus)>>)
                ELSE IF a.tag = "Cos" /\ b.tag = "Sin" THEN Sum(<<Sin(plus), Neg(Sin(minus))>>)
                ELSE IF a.tag = "Cos" /\ b.tag = "Cos" THEN Sum(<<Cos(plus), Cos(minus)>>)
                ELSE Sum(<<Cos(minus), Neg(Cos(plus))>>)
    IN One_kid("append", "", Div(temp, Const(2, 1)), node.var, Transform("ProductToSum", NoExpr))

\* pkg ByParts lines 700-774; the stash is the tuple (u, du, v, dv)
Stuff(u, du, v, dv) == [tag |-> "stuff", val |-> 0, den |-> 1, args |-> <<u, du, v, dv>>]

ByParts_check(T, n) ==
    LET node == T[n]
        e == node.expr
        v == Symbol(node.var)
        try(u, dv) ==
            LET du == call("diff", <<u, node.var>>)
                vv == call("check_if_solveable", <<dv, node.var>>)
                integrand2 == Prod(<<Prod(<<du, vv>>), Const(-1, 1)>>)
                factor == call("simplify", <<Div(integrand2, e)>>)
            IN IF has_diff_error(du) THEN CheckRaise("NotImplementedError")
               ELSE IF vv = NoExpr THEN CheckNo
               ELSE IF factor = One THEN CheckNo
               ELSE CheckYes(NoExpr, Stuff(u, du, vv, dv), "")
        first == try(e.args[1], e.args[2])
    IN IF e.tag # "Prod"
       THEN IF (e.tag = "Log" \/ e.tag \in InverseTrig) /\ e.args[1] = v
            THEN CheckYes(NoExpr, Stuff(e, call("diff", <<e, node.var>>), v, One), "")
            ELSE CheckNo
       ELSE IF Len(e.args) # 2 THEN CheckNo
       ELSE IF first.ok \/ first.err # "" THEN first
       ELSE try(e.args[2], e.args[1])

\* ByParts.forward whose second child is u'*v, the sign lost
ByParts_forward_unsigned(g, node, chk, fresh) ==
    LET u == chk.aux.args[1]
        du == chk.aux.args[2]
        vv == chk.aux.args[3]
        child1 == call("simplify", <<Prod(<<u, vv>>)>>)
        integrand2 == call("simplify", <<Prod(<<du, vv>>)>>)
        tr == Transform("ByParts", NoExpr)
        factor == call("simplify", <<Div(integrand2, node.expr)>>)
        solution == Div(child1, Sum(<<One, Neg(factor)>>))
        add == Transform("Additivity", NoExpr)
    IN IF ~contains(factor, node.var)
       THEN Forward("append", "", <<Kid(node.expr, node.var, tr, "SOLUTION", solution, <<>>)>>)
       ELSE Forward("append", "",
                <<Kid(node.expr, node.var, tr, "AND", NoExpr,
                      <<Kid(node.expr, node.var, add, "SOLUTION", child1, <<>>),
                        Kid(integrand2, node.var, add, "UNSET", NoExpr, <<>>)>>)>>)

ByParts_forward(g, node, chk, fresh) ==
    LET u == chk.aux.args[1]
        du == chk.aux.args[2]
        vv == chk.aux.args[3]
        child1 == call("simplify", <<Prod(<<u, vv>>)>>)
        integrand2 == call("simplify", <<Prod(<<Prod(<<du, vv>>), Const(-1, 1)>>)>>)
        tr == Transform("ByParts", NoExpr)
        factor == call("simplify", <<Div(integrand2, node.expr)>>)
        solution == Div(child1, Sum(<<One, Neg(factor)>>))
        add == Transform("Additivity", NoExpr)
    IN IF ~contains(factor, node.var)
       THEN Forward("append", "", <<Kid(node.expr, node.var, tr, "SOLUTION", solution, <<>>)>>)
       ELSE Forward("append", "",
                <<Kid(node.expr, node.var, tr, "AND", NoExpr,
                      <<Kid(node.expr, node.var, add, "SOLUTION", child1, <<>>),
                        Kid(integrand2, node.var, add, "UNSET", NoExpr, <<>>)>>)>>)

\* pkg GenericUSub lines 838-875
remove_const_factor(expr) ==
    IF expr.tag = "Prod" THEN Prod(SelectIdx(expr.args, LAMBDA t : ~IsConst(t))) ELSE expr

GenericUSub_check(T, n) ==
    LET node == T[n]
        v == Symbol(node.var)
        terms == node.expr.args
        integral(i) == remove_const_factor(call("check_if_solveable", <<terms[i], node.var>>))
        rest(i) == Prod(RemoveAt(terms, i))
        hits == {i \in DOMAIN terms :
                    /\ call("check_if_solveable", <<terms[i], node.var>>) # NoExpr
                    /\ count(rest(i), integral(i)) * count(integral(i), v) = count(rest(i), v)}
    IN IF node.expr.tag # "Prod" THEN CheckNo
       ELSE IF hits = {} THEN CheckNo
       ELSE CheckYes(integral(SetMin(hits)), NoExpr, "")

GenericUSub_forward(g, node, chk, fresh) ==
    LET du_dx == call("diff", <<chk.data, node.var>>)
        new_integrand == replace(call("simplify", <<Div(node.expr, du_dx)>>), chk.data, Symbol(fresh))
    IN One_kid("append", "", new_integrand, fresh, Transform("GenericUSub", chk.data))

PolynomialDivision_forward(g, node, chk, fresh) ==
    LET qr == call("divide", <<chk.data, chk.aux,
                     [k \in 1 .. Len(chk.data) - Len(chk.aux) + 1 |-> Zero]>>)
        remainder == Div(polynomial_to_expr(qr[2], node.var), polynomial_to_expr(chk.aux, node.var))
        answer == call("simplify", <<Sum(<<polynomial_to_expr(qr[1], node.var), remainder>>)>>)
    IN One_kid("set", "", answer, node.var, Transform("PolynomialDivision", NoExpr))

PartialFractions_forward(g, node, chk, fresh) ==
    One_kid("append", "", chk.aux, node.var, Transform("PartialFractions", NoExpr))

\* ----------------------------------------------------------- the two lists
SAFE_TRANSFORMS(g) ==
    IF g = "legacy" THEN <<"Additivity", "PullConstant", "Expand", "PolynomialDivision">>
    ELSE <<"Additivity", "PullConstant", "PartialFractions", "PolynomialDivision", "Expand", "LinearUSub">>

HEURISTICS(g) ==
    IF g = "legacy" THEN <<"B_Tan", "A", "C_Sin", "C_Tan">>
    ELSE <<"PolynomialUSub", "CompoundAngle", "SinUSub", "ProductToSum", "TrigUSub2", "ByParts",
           "RewriteTrig", "InverseTrigUSub", "GenericUSub">>

\* tr = transform(); tr.check(node)
check(g, cls, T, n) ==
    CASE cls = "Additivity" -> call("Additivity_check", <<g, T[n]>>)
      [] cls = "PullConstant" -> call("PullConstant_check", <<g, T[n]>>)
      [] cls = "PartialFractions" -> call("PartialFractions_check", <<g, T[n]>>)
      [] cls = "PolynomialDivision" -> call("PolynomialDivision_check", <<g, T[n]>>)
      [] cls = "Expand" -> call("Expand_check", <<g, T[n]>>)
      [] cls = "LinearUSub" -> call("LinearUSub_check", <<g, T[n]>>)
      [] cls = "B_Tan" -> call("B_Tan_check", <<T, n>>)
      [] cls = "A" -> call("A_check", <<T, n>>)
      [] cls = "C_Sin" -> call("C_Sin_check", <<T, n>>)
      [] cls = "C_Tan" -> call("C_Tan_check", <<T, n>>)
      [] cls = "PolynomialUSub" -> call("PolynomialUSub_check", <<T, n>>)
      [] cls = "CompoundAngle" -> call("CompoundAngle_check", <<T, n>>)
      [] cls = "SinUSub" -> call("SinUSub_check", <<T, n>>)
      [] cls = "ProductToSum" -> call("ProductToSum_check", <<T, n>>)
      [] cls = "TrigUSub2" -> call("TrigUSub2_check", <<T, n>>)
      [] cls = "ByParts" -> call("ByParts_check", <<T, n>>)
      [] cls = "RewriteTrig" -> call("RewriteTrig_check", <<T, n>>)
      [] cls = "InverseTrigUSub" -> call("InverseTrigUSub_check", <<T, n>>)
      [] cls = "GenericUSub" -> call("GenericUSub_check", <<T, n>>)

\* tr.forward(node), given what tr.check(node) stashed
forward(g, cls, node, chk, fresh) ==
    CASE cls = "Additivity" -> call("Additivity_forward", <<g, node, chk, fresh>>)
      [] cls = "PullConstant" -> call("PullConstant_forward", <<g, node, chk, fresh>>)
      [] cls = "PartialFractions" -> call("PartialFractions_forward", <<g, node, chk, fresh>>)
      [] cls = "PolynomialDivision" -> call("PolynomialDivision_forward", <<g, node, chk, fresh>>)
      [] cls = "Expand" -> call("Expand_forward", <<g, node, chk, fresh>>)
      [] cls = "LinearUSub" -> call("LinearUSub_forward", <<g, node, chk, fresh>>)
      [] cls = "B_Tan" -> call("B_Tan_forward", <<g, node, chk, fresh>>)
      [] cls = "A" -> call("A_forward", <<g, node, chk, fresh>>)
      [] cls = "C_Sin" -> call("C_Sin_forward", <<g, node, chk, fresh>>)
      [] cls = "C_Tan" -> call("C_Tan_forward", <<g, node, chk, fresh>>)
      [] cls = "PolynomialUSub" -> call("PolynomialUSub_forward", <<g, node, chk, fresh>>)
      [] cls = "CompoundAngle" -> call("CompoundAngle_forward", <<g, node, chk, fresh>>)
      [] cls = "SinUSub" -> call("SinUSub_forward", <<g, node, chk, fresh>>)
      [] cls = "ProductToSum" -> call("ProductToSum_forward", <<g, node, chk, fresh>>)
      [] cls = "TrigUSub2" -> call("TrigUSub2_forward", <<g, node, chk, fresh>>)
      [] cls = "ByParts" -> call("ByParts_forward", <<g, node, chk, fresh>>)
      [] cls = "RewriteTrig" -> call("RewriteTrig_forward", <<g, node, chk, fresh>>)
      [] cls = "InverseTrigUSub" -> call("InverseTrigUSub_forward", <<g, node, chk, fresh>>)
      [] cls = "GenericUSub" -> call("GenericUSub_forward", <<g, node, chk, fresh>>)

\* tr.backward(node): the exception it raises ("" when it returns) and the tree
\* it leaves.  Transform.backward raises ValueError when node.solution is None;
\* root.transform is None, so the call itself raises AttributeError there.
Backward(raised, T) == [raised |-> raised, T |-> T]

backward(g, T, n) ==
    LET node == T[n]
        cls == node.transform.cls
        vc == node.transform.data
        kids == T[node.parent].children
        put(sol) == Backward("", [T EXCEPT ![node.parent].solution = sol])
    IN IF cls = "None" THEN Backward("AttributeError", T)
       ELSE IF node.solution = NoExpr THEN Backward("ValueError", T)
       ELSE IF cls = "PullConstant" THEN put(call("simplify", <<Prod(<<vc, node.solution>>)>>))
       ELSE IF cls = "Additivity"
       THEN IF \E i \in DOMAIN kids : T[kids[i]].solution = NoExpr
            THEN (IF g = "legacy" THEN Backward("", T) ELSE Backward("ValueError", T))
            ELSE put(call("Sum_simplify", <<[i \in DOMAIN kids |-> T[kids[i]].solution]>>))
       ELSE IF cls = "B_Tan" THEN put(call("simplify", <<replace(node.expr, Symbol(node.var), vc)>>))
       ELSE IF cls \in {"C_Sin", "C_Tan", "TrigUSub2", "InverseTrigUSub", "PolynomialUSub",
                        "LinearUSub", "SinUSub", "GenericUSub"}
       THEN put(call("simplify", <<replace(node.solution, Symbol(node.var), vc)>>))
       ELSE put(node.solution)

\* ------------------------------------------------------------- tree growth
RECURSIVE kids_size(_)
kids_size(kids) == IF kids = <<>> THEN 0 ELSE 1 + Len(kids[1].sub) + kids_size(Tail(kids))

\* attach that gives the nodes of the second layer the node n for parent
attach_flat(T, n, fwd) ==
    LET kids == fwd.kids
        at(i) == Len(T) + kids_size(SubSeq(kids, 1, i - 1)) + 1
        made(k, parent, sub_ids) ==
            [call("Node", <<k.expr, k.var, k.transform, parent>>) EXCEPT
                !.type = k.type, !.solution = k.solution, !.children = sub_ids]
        block(i) == <<made(kids[i], n, [j \in DOMAIN kids[i].sub |-> at(i) + j])>>
                    \o [j \in DOMAIN kids[i].sub |-> made(kids[i].sub[j], n, <<>>)]
        RECURSIVE blocks(_)
        blocks(i) == IF i > Len(kids) THEN <<>> ELSE block(i) \o blocks(i + 1)
        ids == [i \in DOMAIN kids |-> at(i)]
        T1 == [T EXCEPT ![n].children = IF fwd.mode = "set" THEN ids ELSE @ \o ids,
                        ![n].type = IF fwd.type = "" THEN @ ELSE fwd.type]
    IN T1 \o blocks(1)

\* the arena after forward() built its Node objects under node n
attach(T, n, fwd) ==
    LET kids == fwd.kids
        at(i) == Len(T) + kids_size(SubSeq(kids, 1, i - 1)) + 1
        made(k, parent, sub_ids) ==
            [call("Node", <<k.expr, k.var, k.transform, parent>>) EXCEPT
                !.type = k.type, !.solution = k.solution, !.children = sub_ids]
        block(i) == <<made(kids[i], n, [j \in DOMAIN kids[i].sub |-> at(i) + j])>>
                    \o [j \in DOMAIN kids[i].sub |-> made(kids[i].sub[j], at(i), <<>>)]
        RECURSIVE blocks(_)
        blocks(i) == IF i > Len(kids) THEN <<>> ELSE block(i) \o blocks(i + 1)
        ids == [i \in DOMAIN kids |-> at(i)]
        T1 == [T EXCEPT ![n].children = IF fwd.mode = "set" THEN ids ELSE @ \o ids,
                        ![n].type = IF fwd.type = "" THEN @ ELSE fwd.type]
    IN T1 \o blocks(1)

\* ------------------------------------------------------ frontier selection
SOLVED == -1            \* the string "SOLVED" that _cycle returns
None == 0               \* no node
AttributeError == -2    \* parent.children on parent = None
TodoError == -3         \* NotImplementedError("TODO _get_next_node for success nodes")

get_node_with_best_nesting(T, ns, fn) ==
    LET results == [i \in DOMAIN ns |-> nesting(T[ns[i]].expr, T[ns[i]].var)]
        best_value == IF fn = "min" THEN -SeqMax([i \in DOMAIN results |-> -results[i]])
                      ELSE SeqMax(results)
    IN ns[SetMin({i \in DOMAIN results : results[i] = best_value})]

nesting_node(T, n) ==
    LET uc == unsolved_children(T, n)
        is_2nd_lowest_parent == \A i \in DOMAIN uc : unsolved_children(T, uc[i]) = <<>>
        fn == IF T[n].type = "OR" THEN "min" ELSE "max"
    IN IF Len(uc) = 1 THEN call("nesting_node", <<T, uc[1]>>)
       ELSE IF Len(uc) = 0 THEN n
       ELSE IF is_2nd_lowest_parent THEN get_node_with_best_nesting(T, uc, fn)
       ELSE get_node_with_best_nesting(T, List([i \in DOMAIN uc |-> call("nesting_node", <<T, uc[i]>>)]), fn)

get_next_node_post_heuristic(T, n) ==
    LET ul == unfinished_leaves(T, n)
        \* while len(parent.children) == 1 or parent.type == "AND": climb
        RECURSIVE climb(_)
        climb(parent) ==
            IF parent = None THEN AttributeError
            ELSE IF Len(T[parent].children) = 1 \/ T[parent].type = "AND"
                 THEN IF T[parent].parent = None THEN None ELSE climb(T[parent].parent)
            ELSE call("get_next_node_post_heuristic", <<T, parent>>)
    IN IF Len(ul) = 0
       THEN IF is_failed(T, n) THEN climb(T[n].parent) ELSE TodoError
       ELSE IF Len(ul) = 1 THEN ul[1]
       ELSE call("nesting_node", <<T, n>>)

\* try_transform whose check keeps its findings on the node (in node.solution)
\* instead of on the transform object
try_transform_check_writes(g, cls, T, n) ==
    LET chk == call("check", <<g, cls, T, n>>)
        fwd == IF chk.ok THEN call("forward", <<g, cls, T[n], chk, FreshBase + Len(T)>>)
               ELSE NoForward
        fits == Len(T) + kids_size(fwd.kids) <= MaxNodes
        T1 == [T EXCEPT ![n].solution = T[n].expr]
    IN [chk |-> chk, fwd |-> fwd, fits |-> fits,
        T |-> IF chk.ok /\ chk.err = "" /\ fits THEN call("attach", <<T1, n, fwd>>) ELSE T1]

\* "tr = transform(); if tr.check(node): tr.forward(node)", the step shared by
\* _integrate_safely and _integrate_heuristically; fits tells whether the
\* nodes forward() builds stay within MaxNodes
try_transform(g, cls, T, n) ==
    LET chk == call("check", <<g, cls, T, n>>)
        fwd == IF chk.ok THEN call("forward", <<g, cls, T[n], chk, FreshBase + Len(T)>>)
               ELSE NoForward
        fits == Len(T) + kids_size(fwd.kids) <= MaxNodes
    IN [chk |-> chk, fwd |-> fwd, fits |-> fits,
        T |-> IF chk.ok /\ chk.err = "" /\ fits THEN call("attach", <<T, n, fwd>>) ELSE T]

\* ------------------------------------------------------------- dispatch
\* Every call from one translated function to another goes through call, so
\* that the functions may call each other in any order, as the source's do.
call(f, a) ==
    CASE f = "deconstruct_prod" -> deconstruct_prod(a[1])
      [] f = "Prod_merge" -> Prod_merge(a[1])
      [] f = "Prod_simplify" -> Prod_simplify(a[1])
      [] f = "Sum_merge" -> Sum_merge(a[1])
      [] f = "pythagorean" -> pythagorean(a[1])
      [] f = "other_table" -> other_table(a[1])
      [] f = "Sum_simplify" -> Sum_simplify(a[1])
      [] f = "Power_simplify" -> Power_simplify(a[1], a[2])
      [] f = "TrigFunction_simplify" -> TrigFunction_simplify(a[1], a[2])
      [] f = "pi_coeff" -> pi_coeff(a[1])
      [] f = "Sum_factor" -> Sum_factor(a[1])
      [] f = "Log_simplify" -> Log_simplify(a[1])
      [] f = "Sin_simplify" -> Sin_simplify(a[1])
      [] f = "Cos_simplify" -> Cos_simplify(a[1])
      [] f = "Tan_simplify" -> Tan_simplify(a[1])
      [] f = "Sec_simplify" -> Sec_simplify(a[1])
      [] f = "simplify" -> simplify(a[1])
      [] f = "Node" -> Node(a[1], a[2], a[3], a[4])
      [] f = "numerator_denominator" -> numerator_denominator(a[1])
      [] f = "expandable" -> expandable(a[1], a[2])
      [] f = "expand" -> expand(a[1], a[2])
      [] f = "diff" -> diff(a[1], a[2])
      [] f = "poly_terms" -> poly_terms(a[1])
      [] f = "divide_step" -> divide_step(a[1], a[2])
      [] f = "polynomial_len" -> polynomial_len(a[1], a[2])
      [] f = "term_coeff" -> term_coeff(a[1], a[2])
      [] f = "to_const_polynomial" -> to_const_polynomial(a[1], a[2])
      [] f = "divide" -> divide(a[1], a[2], a[3])
      [] f = "Additivity_check" -> Additivity_check(a[1], a[2])
      [] f = "PullConstant_check" -> PullConstant_check(a[1], a[2])
      [] f = "PartialFractions_check" -> PartialFractions_check(a[1], a[2])
      [] f = "PolynomialDivision_check" -> PolynomialDivision_check(a[1], a[2])
      [] f = "Expand_check" -> Expand_check(a[1], a[2])
      [] f = "LinearUSub_check" -> LinearUSub_check(a[1], a[2])
      [] f = "Additivity_forward" -> Additivity_forward(a[1], a[2], a[3], a[4])
      [] f = "PullConstant_forward" -> PullConstant_forward(a[1], a[2], a[3], a[4])
      [] f = "Expand_forward" -> Expand_forward(a[1], a[2], a[3], a[4])
      [] f = "LinearUSub_forward" -> LinearUSub_forward(a[1], a[2], a[3], a[4])
      [] f = "check_if_solvable" -> check_if_solvable(a[1], a[2])
      [] f = "check_if_solveable" -> check_if_solveable(a[1], a[2])
      [] f = "table" -> table(a[1], a[2], a[3])
      [] f = "newfunc" -> newfunc(a[1], a[2], a[3])
      [] f = "replace_class" -> replace_class(a[1], a[2])
      [] f = "rewrite_options" -> rewrite_options(a[1])
      [] f = "B_Tan_check" -> B_Tan_check(a[1], a[2])
      [] f = "B_Tan_forward" -> B_Tan_forward(a[1], a[2], a[3], a[4])
      [] f = "A_check" -> A_check(a[1], a[2])
      [] f = "A_forward" -> A_forward(a[1], a[2], a[3], a[4])
      [] f = "C_Sin_check" -> C_Sin_check(a[1], a[2])
      [] f = "C_Sin_forward" -> C_Sin_forward(a[1], a[2], a[3], a[4])
      [] f = "C_Tan_check" -> C_Tan_check(a[1], a[2])
      [] f = "C_Tan_forward" -> C_Tan_forward(a[1], a[2], a[3], a[4])
      [] f = "TrigUSub2_check" -> TrigUSub2_check(a[1], a[2])
      [] f = "TrigUSub2_forward" -> TrigUSub2_forward(a[1], a[2], a[3], a[4])
      [] f = "RewriteTrig_check" -> RewriteTrig_check(a[1], a[2])
      [] f = "RewriteTrig_forward" -> RewriteTrig_forward(a[1], a[2], a[3], a[4])
      [] f = "InverseTrigUSub_check" -> InverseTrigUSub_check(a[1], a[2])
      [] f = "InverseTrigUSub_forward" -> InverseTrigUSub_forward(a[1], a[2], a[3], a[4])
      [] f = "PolynomialUSub_check" -> PolynomialUSub_check(a[1], a[2])
      [] f = "PolynomialUSub_forward" -> PolynomialUSub_forward(a[1], a[2], a[3], a[4])
      [] f = "CompoundAngle_check" -> CompoundAngle_check(a[1], a[2])
      [] f = "perform_compound" -> perform_compound(a[1])
      [] f = "CompoundAngle_forward" -> CompoundAngle_forward(a[1], a[2], a[3], a[4])
      [] f = "SinUSub_check" -> SinUSub_check(a[1], a[2])
      [] f = "SinUSub_forward" -> SinUSub_forward(a[1], a[2], a[3], a[4])
      [] f = "ProductToSum_check" -> ProductToSum_check(a[1], a[2])
      [] f = "ProductToSum_forward" -> ProductToSum_forward(a[1], a[2], a[3], a[4])
      [] f = "ByParts_check" -> ByParts_check(a[1], a[2])
      [] f = "ByParts_forward" -> ByParts_forward(a[1], a[2], a[3], a[4])
      [] f = "GenericUSub_check" -> GenericUSub_check(a[1], a[2])
      [] f = "GenericUSub_forward" -> GenericUSub_forward(a[1], a[2], a[3], a[4])
      [] f = "PolynomialDivision_forward" -> PolynomialDivision_forward(a[1], a[2], a[3], a[4])
      [] f = "PartialFractions_forward" -> PartialFractions_forward(a[1], a[2], a[3], a[4])
      [] f = "check" -> check(a[1], a[2], a[3], a[4])
      [] f = "forward" -> forward(a[1], a[2], a[3], a[4], a[5])
      [] f = "backward" -> backward(a[1], a[2], a[3])
      [] f = "attach" -> attach(a[1], a[2], a[3])
      [] f = "try_transform" -> try_transform(a[1], a[2], a[3], a[4])
      [] f = "nesting_node" -> nesting_node(a[1], a[2])
      [] f = "get_next_node_post_heuristic" -> get_next_node_post_heuristic(a[1], a[2])

\* ---------------------------------------------------------------- state
VARIABLES
    gen,      \* generation of the transform lists in use
    nodes,    \* the AND/OR tree: arena of Node records, nodes[1] is root
    pc,       \* where Integration.integrate stands
    curr,     \* curr_node
    answer,   \* what the last _cycle returned
    stack,    \* call stack of _integrate_safely: frames [n, t, c]
    hnode,    \* next_node of _cycle, the leaf given to _integrate_heuristically
    hidx,     \* index into HEURISTICS of the transform tried next
    queue,    \* solved_leaves not yet walked
    l,        \* the node the backward walk stands on
    cycles,   \* calls of _cycle made by the while loop of integrate
    result,   \* "" while running, then "returned" or the exception raised
    fn,       \* the function a caller outside integrate applies, "" in integrate
    arg,      \* the expression it is applied to
    out       \* what the calls made so far returned, in order

vars == <<gen, nodes, pc, curr, answer, stack, hnode, hidx, queue, l, cycles, result,
          fn, arg, out>>

root == 1
v0 == Symbol(X)
Sq(e) == Power(e, Const(2, 1))

\* the integrands of the runs explored, as their constructors build them
Integrands(g) ==
    {v0, Sq(v0), Inv(v0), Symbol(Y), Const(3, 1),
     Sum(<<v0, Sq(v0)>>), Power(v0, v0), Sum(<<v0, Power(v0, v0)>>),
     Prod(<<v0, Symbol(Y)>>), Sum(<<v0, Prod(<<v0, Symbol(Y)>>)>>),
     Prod(<<Symbol(Y), Power(v0, v0)>>),
     Sin(v0), Tan(v0), Prod(<<Sin(v0), Tan(v0)>>), Inv(Sum(<<One, Sq(v0)>>)),
     Inv(Sum(<<One, Neg(Sq(v0))>>)), Sq(Sum(<<One, v0>>))}
    \cup (IF g = "legacy"
          THEN {Prod(<<Const(3, 1), v0>>), Prod(<<v0, Power(Symbol(Y), v0)>>)}
          ELSE {Prod(<<Const(2, 1), Sin(v0)>>), Sum(<<Sin(v0), Cos(v0)>>), Csc(v0)})

Frame(n, t, c) == [n |-> n, t |-> t, c |-> c]

Init ==
    /\ gen \in {"legacy", "pkg"}
    /\ \E integrand \in Integrands(gen) : nodes = <<call("Node", <<integrand, X, NoTransform, None>>)>>
    /\ pc = "safe"
    /\ curr = root
    /\ answer = None
    /\ stack = <<Frame(root, 1, 0)>>
    /\ hnode = None
    /\ hidx = 0
    /\ queue = <<>>
    /\ l = None
    /\ cycles = 1
    /\ result = ""
    /\ fn = ""
    /\ arg = NoExpr
    /\ out = <<>>

Raise(e) ==
    /\ result' = e
    /\ pc' = "done"

\* the frame on top moves on to the next safe transform, or returns
next_transform(st) ==
    LET top == st[Len(st)]
    IN IF top.t < Len(SAFE_TRANSFORMS(gen))
       THEN [st EXCEPT ![Len(st)] = Frame(top.n, top.t + 1, 0)]
       ELSE SubSeq(st, 1, Len(st) - 1)

\* _integrate_safely: tr = transform(); if tr.check(node): tr.forward(node)
SafeCheck ==
    /\ pc = "safe"
    /\ stack # <<>>
    /\ stack[Len(stack)].c = 0
    /\ \E top \in {stack[Len(stack)]}, cls \in {SAFE_TRANSFORMS(gen)[stack[Len(stack)].t]} :
       \E tr \in {call("try_transform", <<gen, cls, nodes, top.n>>)} :
          IF tr.chk.err # ""
          THEN Raise(tr.chk.err) /\ UNCHANGED <<nodes, stack>>
          ELSE IF ~tr.chk.ok
          THEN /\ stack' = next_transform(stack)
               /\ pc' = IF stack' = <<>> THEN "table" ELSE "safe"
               /\ UNCHANGED <<nodes, result>>
          ELSE IF ~tr.fits
          THEN Raise("overflow") /\ UNCHANGED <<nodes, stack>>
          ELSE /\ nodes' = tr.T
               /\ stack' = [stack EXCEPT ![Len(stack)] = Frame(top.n, top.t, 1)]
               /\ UNCHANGED <<pc, result>>
    /\ UNCHANGED <<fn, arg, out, gen, curr, answer, hnode, hidx, queue, l, cycles>>

\* _integrate_safely: for child in node.children: _integrate_safely(child)
SafeRecurse ==
    /\ pc = "safe"
    /\ stack # <<>>
    /\ stack[Len(stack)].c > 0
    /\ LET top == stack[Len(stack)]
           kids == nodes[top.n].children
       IN IF top.c <= Len(kids)
          THEN stack' = [stack EXCEPT ![Len(stack)] = Frame(top.n, top.t, top.c + 1)]
                        \o <<Frame(kids[top.c], 1, 0)>>
          ELSE stack' = next_transform(stack)
    /\ pc' = IF stack' = <<>> THEN "table" ELSE "safe"
    /\ UNCHANGED <<fn, arg, out, gen, nodes, curr, answer, hnode, hidx, queue, l, result, cycles>>

\* _cycle step 2: every unfinished leaf under curr_node is looked up
\* "if answer is not None: leaf.solution = answer; leaf.type = SOLUTION"
mark_solved(T, leaf, ans) ==
    IF ans = NoExpr THEN T
    ELSE [T EXCEPT ![leaf].type = "SOLUTION", ![leaf].solution = ans]

RECURSIVE look_up(_, _, _)
look_up(g, T, leaves_) ==
    IF leaves_ = <<>> THEN T
    ELSE look_up(g, mark_solved(T, leaves_[1],
                          call("table", <<g, T[leaves_[1]].expr, T[leaves_[1]].var>>)),
                 Tail(leaves_))

LookInTable ==
    /\ pc = "table"
    /\ nodes' = look_up(gen, nodes, unfinished_leaves(nodes, curr))
    /\ \E left \in {unfinished_leaves(nodes', curr)} :
       IF left = <<>>
       THEN /\ answer' = SOLVED
            /\ pc' = "loop"
            /\ UNCHANGED <<hnode, hidx>>
       ELSE /\ hnode' = left[1]
            /\ hidx' = 1
            /\ pc' = "heur"
            /\ UNCHANGED answer
    /\ UNCHANGED <<fn, arg, out, gen, curr, stack, queue, l, result, cycles>>

\* _integrate_heuristically: one turn of "for transform in HEURISTICS"
HeuristicCheck ==
    /\ pc = "heur"
    /\ hidx <= Len(HEURISTICS(gen))
    /\ \E cls \in {HEURISTICS(gen)[hidx]} :
       \E tr \in {call("try_transform", <<gen, cls, nodes, hnode>>)} :
          IF tr.chk.err # ""
          THEN Raise(tr.chk.err) /\ UNCHANGED <<nodes, hidx>>
          ELSE IF ~tr.chk.ok
          THEN hidx' = hidx + 1 /\ UNCHANGED <<nodes, pc, result>>
          ELSE IF ~tr.fits
          THEN Raise("overflow") /\ UNCHANGED <<nodes, hidx>>
          ELSE /\ nodes' = tr.T
               /\ hidx' = hidx + 1
               /\ UNCHANGED <<pc, result>>
    /\ UNCHANGED <<fn, arg, out, gen, curr, answer, stack, hnode, queue, l, cycles>>

\* mark_leaf that takes a leaf with one child for a leaf with none
mark_leaf_le_one(T, n) ==
    IF Len(T[n].children) <= 1 THEN [T EXCEPT ![n].type = "FAILURE"]
    ELSE [T EXCEPT ![n].type = "OR"]

\* _integrate_heuristically lines 591-596, after the loop over HEURISTICS
mark_leaf(T, n) ==
    IF T[n].children = <<>> THEN [T EXCEPT ![n].type = "FAILURE"]
    ELSE IF Len(T[n].children) > 1 THEN [T EXCEPT ![n].type = "OR"]
    ELSE T

\* the end of _integrate_heuristically and the rest of _cycle: the leaf is
\* marked, then _get_next_node_post_heuristic(next_node) is returned
HeuristicFinish ==
    /\ pc = "heur"
    /\ hidx > Len(HEURISTICS(gen))
    /\ \E T1 \in {mark_leaf(nodes, hnode)} :
       \E nxt \in {call("get_next_node_post_heuristic", <<T1, hnode>>)} :
          /\ nodes' = T1
          /\ IF nxt = AttributeError THEN Raise("AttributeError") /\ UNCHANGED answer
             ELSE IF nxt = TodoError THEN Raise("NotImplementedError") /\ UNCHANGED answer
             ELSE answer' = nxt /\ pc' = "loop" /\ UNCHANGED result
    /\ UNCHANGED <<fn, arg, out, gen, curr, stack, hnode, hidx, queue, l, cycles>>

\* Integration.integrate lines 545-559: after a _cycle, break when the root is
\* finished, else choose the node of the next _cycle
IntegrateLoop ==
    /\ pc = "loop"
    /\ IF is_finished(nodes, root)
       THEN IF is_failed(nodes, root)
            THEN Raise("Failed to integrate") /\ UNCHANGED <<curr, stack, queue>>
            ELSE /\ queue' = SelectIdx(leaves(nodes, root), LAMBDA lf : is_solved(nodes, lf))
                 /\ pc' = "back"
                 /\ UNCHANGED <<curr, stack, result>>
       ELSE \E nxt \in {IF answer = SOLVED THEN call("get_next_node_post_heuristic", <<nodes, root>>)
                          ELSE answer} :
               IF nxt \in {AttributeError, None}
               THEN Raise("AttributeError") /\ UNCHANGED <<curr, stack, queue>>
               ELSE IF nxt = TodoError
               THEN Raise("NotImplementedError") /\ UNCHANGED <<curr, stack, queue>>
               ELSE IF cycles >= MaxCycles
               THEN Raise("overflow") /\ UNCHANGED <<curr, stack, queue>>
               ELSE /\ curr' = nxt
                    /\ stack' = <<Frame(nxt, 1, 0)>>
                    /\ pc' = "safe"
                    /\ UNCHANGED <<queue, result>>
    /\ cycles' = IF pc' = "safe" THEN cycles + 1 ELSE cycles
    /\ UNCHANGED <<fn, arg, out, gen, nodes, answer, hnode, hidx, l>>

\* "for leaf in solved_leaves: l = leaf"; once the leaves are exhausted,
\* integrate lines 570-573: root.solution is returned, or ValueError raised
NextLeaf ==
    /\ pc = "back"
    /\ l = None
    /\ IF queue # <<>>
       THEN /\ l' = Head(queue)
            /\ queue' = Tail(queue)
            /\ UNCHANGED <<pc, result>>
       ELSE /\ IF nodes[root].solution = NoExpr THEN Raise("ValueError") ELSE Raise("returned")
            /\ UNCHANGED <<queue, l>>
    /\ UNCHANGED <<fn, arg, out, gen, nodes, curr, answer, stack, hnode, hidx, cycles>>

\* "l.transform.backward(l); l = l.parent", ValueError ends the walk of this leaf
BackwardStep ==
    /\ pc = "back"
    /\ l # None
    /\ \E r \in {call("backward", <<gen, nodes, l>>)} :
          IF r.raised = "AttributeError"
          THEN Raise("AttributeError") /\ UNCHANGED <<nodes, l>>
          ELSE IF r.raised = "ValueError"
          THEN l' = None /\ UNCHANGED <<nodes, pc, result>>
          ELSE nodes' = r.T /\ l' = nodes[l].parent /\ UNCHANGED <<pc, result>>
    /\ UNCHANGED <<fn, arg, out, gen, curr, answer, stack, hnode, hidx, queue, cycles>>

Next ==
    \/ SafeCheck
    \/ SafeRecurse
    \/ LookInTable
    \/ HeuristicCheck
    \/ HeuristicFinish
    \/ IntegrateLoop
    \/ NextLeaf
    \/ BackwardStep

Spec == Init /\ [][Next]_vars

\* ------------------------------------------- the library called directly
\* simplify and the checks and forwards of single transforms, applied by a
\* caller to an expression of its own, as the tests of the repository do

\* multiples k of pi: the special keys, and arguments outside [0, 2)
Keys == SPECIAL_KEYS \cup {Const(-1, 4), Const(1, 6), Const(2, 1), Const(9, 4)}
\* rational bases and exponents
Bases == {Fraction(n, d) : n \in {-4, 0, 1, 2, 4, 9}, d \in {1, 3, 4, 9}}
Exponents == {Const(1, 2), Const(-1, 2), Const(3, 2), Const(2, 1), Const(-1, 1)}
\* the sub-expressions u of the trigonometric identities
Us == {v0, Prod(<<Const(2, 1), v0>>), Sum(<<v0, One>>)}

\* two-term sums next to the four identities: another constant, another
\* exponent, a factor or a divisor on the squared term, and 1 - tan^2, 1 - cot^2
NearIdentities ==
    UNION {{Sum(<<Const(11, 1), Sq(Tan(u))>>),
            Sum(<<One, Neg(Power(Sin(u), Const(20, 1)))>>),
            Sum(<<One, Prod(<<Const(2, 1), Sq(Tan(u))>>)>>),
            Sum(<<One, Prod(<<Const(1, 3), Sq(Tan(u))>>)>>),
            Sum(<<One, Neg(Sq(Tan(u)))>>),
            Sum(<<One, Neg(Sq(Cot(u)))>>)} : u \in {v0, Prod(<<Const(2, 1), v0>>)}}

SimplifyArgs ==
    {Power(b, x) : b \in Bases, x \in Exponents}
    \cup {SingleFunc(f, Prod(<<k, Pi>>)) : f \in {"Sin", "Cos", "Tan", "Sec"}, k \in Keys}
    \cup {SingleFunc(f, Pi) : f \in {"Sin", "Cos", "Tan"}}
    \cup {Sum(<<One, Sq(SingleFunc(f, u))>>) : f \in {"Tan", "Cot"}, u \in Us}
    \cup {Sum(<<One, Neg(Sq(SingleFunc(f, u)))>>) : f \in {"Sin", "Cos"}, u \in Us}
    \cup {Sum(<<Sq(Sin(u)), Sq(Cos(u))>>) : u \in Us}
    \cup {Sum(<<Sq(Cos(u)), Symbol(Y), Sq(Sin(u))>>) : u \in Us}
    \cup {Sum(<<Sq(Sec(u)), Neg(Sq(Tan(u)))>>) : u \in Us}
    \cup {Sum(<<v0, Sq(Sec(u)), Neg(Sq(Tan(u)))>>) : u \in Us}
    \cup NearIdentities
    \cup {Sum(<<v0, v0>>), Prod(<<v0, v0>>), Sin(ArcSin(v0)),
          Sum(<<Sq(Sin(v0)), Sq(Cos(Symbol(Y)))>>)}
    \cup {Log(e) : e \in {One, E, Sq(v0), Prod(<<Const(2, 1), v0>>), Sum(<<v0, One>>),
                           Sum(<<Sq(v0), Prod(<<Const(6, 1), v0>>)>>), Sec(v0), Inv(v0),
                           Sum(<<Prod(<<Const(2, 1), v0>>), Const(4, 1)>>),
                           Sum(<<Prod(<<Const(-2, 1), v0>>), Const(-4, 1)>>),
                           Sum(<<Prod(<<Const(2, 1), v0, Symbol(Y)>>), Prod(<<Const(3, 1), Sq(v0)>>)>>)}}

\* a*x + b and the fractions given to the two polynomial transforms
Lin(a, b) == Sum(<<Prod(<<Const(a, 1), v0>>), Const(b, 1)>>)
Numerators == {One, v0, Lin(1, 8), Lin(2, 3), Lin(-12, 18), Sq(v0), Sum(<<Sq(v0), One>>),
               Sum(<<Sq(v0), v0>>), Sum(<<Power(v0, Const(3, 1)), Const(-1, 1)>>),
               Sum(<<Prod(<<Const(2, 1), Sq(v0)>>), Lin(3, 1)>>)}
Denominators == {Const(2, 1), Prod(<<v0, Lin(1, 6)>>), Prod(<<Lin(1, -3), Lin(1, 3)>>), Prod(<<Lin(2, 1), Lin(1, 3)>>),
                 Prod(<<Lin(1, 1), Lin(2, 2)>>), Sum(<<Sq(v0), Prod(<<Const(6, 1), v0>>)>>),
                 Lin(1, 2), Lin(2, 4), Lin(-2, 2), Sum(<<Sq(v0), One>>)}
FractionArgs == {Div(n, d) : n \in Numerators, d \in Denominators}

InitE ==
    /\ gen = "pkg"
    /\ \/ /\ fn = "simplify"
          /\ arg \in SimplifyArgs
          /\ nodes = <<>>
       \/ /\ fn \in {"PartialFractions", "PolynomialDivision"}
          /\ arg \in FractionArgs
          /\ nodes = <<call("Node", <<arg, X, NoTransform, None>>)>>
    /\ pc = "done"
    /\ curr = None
    /\ answer = None
    /\ stack = <<>>
    /\ hnode = None
    /\ hidx = 0
    /\ queue = <<>>
    /\ l = None
    /\ cycles = 0
    /\ result = ""
    /\ out = <<>>

svars == <<gen, nodes, pc, curr, answer, stack, hnode, hidx, queue, l, cycles, result>>

\* r = e.simplify(), and then r.simplify(): a call that raised ends the run
Simplify ==
    /\ fn = "simplify"
    /\ Len(out) < 2
    /\ out # <<>> => ~IsExc(out[1])
    /\ out' = Append(out, call("simplify", <<IF out = <<>> THEN arg ELSE out[Len(out)]>>))
    /\ UNCHANGED <<fn, arg>>
    /\ UNCHANGED svars

tvars == <<gen, pc, curr, answer, stack, hnode, hidx, queue, l, cycles, result>>

\* tr = PartialFractions(); tr.check(Node(arg, x))
PartialFractionsCheck ==
    /\ fn = "PartialFractions"
    /\ out = <<>>
    /\ out' = <<call("PartialFractions_check", <<gen, nodes[1]>>)>>
    /\ UNCHANGED <<fn, arg, nodes>>
    /\ UNCHANGED tvars

\* tr.forward(node) after a check that returned True
PartialFractionsForward ==
    /\ fn = "PartialFractions"
    /\ Len(out) = 1
    /\ out[1].ok
    /\ \E fwd \in {call("PartialFractions_forward", <<gen, nodes[1], out[1], FreshBase>>)} :
          /\ nodes' = call("attach", <<nodes, 1, fwd>>)
          /\ out' = Append(out, fwd)
    /\ UNCHANGED <<fn, arg>>
    /\ UNCHANGED tvars

\* tr = PolynomialDivision(); tr.check(Node(arg, x))
PolynomialDivisionCheck ==
    /\ fn = "PolynomialDivision"
    /\ out = <<>>
    /\ out' = <<call("PolynomialDivision_check", <<gen, nodes[1]>>)>>
    /\ UNCHANGED <<fn, arg, nodes>>
    /\ UNCHANGED tvars

\* tr.forward(node) after a check that returned True
PolynomialDivisionForward ==
    /\ fn = "PolynomialDivision"
    /\ Len(out) = 1
    /\ out[1].ok
    /\ \E fwd \in {call("PolynomialDivision_forward", <<gen, nodes[1], out[1], FreshBase>>)} :
          /\ nodes' = call("attach", <<nodes, 1, fwd>>)
          /\ out' = Append(out, fwd)
    /\ UNCHANGED <<fn, arg>>
    /\ UNCHANGED tvars

NextE ==
    \/ Simplify
    \/ PartialFractionsCheck
    \/ PartialFractionsForward
    \/ PolynomialDivisionCheck
    \/ PolynomialDivisionForward

ExprSpec == InitE /\ [][NextE]_vars

\* ------------------------------------------------------------ properties
Top == stack[Len(stack)]

\* C1: Integration.integrate always terminates: the scheduling loop reaches
\* a finished root after finitely many cycles and never keeps selecting the
\* same frontier node forever.  A cycle that selects an unfinished node adds
\* a node to the tree or finishes a leaf, so a run that terminates never
\* makes more cycles than twice the nodes of its tree.
C1_Terminates == cycles <= 2 * Len(nodes)

\* C2: whenever the search ends with the root solved, back-propagation leaves
\* a solution on the root and integrate returns it without raising an error.
C2_SolvedRootReturns ==
    (pc = "done" /\ result # "overflow" /\ is_solved(nodes, root))
        => (result = "returned" /\ nodes[root].solution # NoExpr)

\* C3: whenever the root becomes failed, integrate reports "Failed to
\* integrate ..." and no other error.
C3_FailedRootReported ==
    (pc = "done" /\ result # "overflow" /\ is_failed(nodes, root))
        => result = "Failed to integrate"

AllSolved(n) == \A i \in DOMAIN nodes[n].children : is_solved(nodes, nodes[n].children[i])
SomeSolved(n) == \E i \in DOMAIN nodes[n].children : is_solved(nodes, nodes[n].children[i])
AllFailed(n) == \A i \in DOMAIN nodes[n].children : is_failed(nodes, nodes[n].children[i])
SomeFailed(n) == \E i \in DOMAIN nodes[n].children : is_failed(nodes, nodes[n].children[i])

\* C4 as stated: is_solved iff SOLUTION, or AND with all children solved, or
\* OR with at least one child solved.
C4_Original ==
    \A n \in DOMAIN nodes :
        is_solved(nodes, n) <=> \/ nodes[n].type = "SOLUTION"
                                \/ nodes[n].type = "AND" /\ AllSolved(n)
                                \/ nodes[n].type = "OR" /\ SomeSolved(n)

\* C4: for every node of every reachable tree, is_solved is true iff the node
\* has kind SOLUTION, or has at least one child, kind AND or UNSET and all
\* its children solved, or has kind OR and at least one child solved.
C4_IsSolved ==
    \A n \in DOMAIN nodes :
        is_solved(nodes, n) <=>
            \/ nodes[n].type = "SOLUTION"
            \/ nodes[n].type \in {"AND", "UNSET"} /\ nodes[n].children # <<>> /\ AllSolved(n)
            \/ nodes[n].type = "OR" /\ SomeSolved(n)

C4_Witness ==
    \E n \in DOMAIN nodes :
        nodes[n].type = "UNSET" /\ nodes[n].children # <<>> /\ is_solved(nodes, n)

\* C5 as stated: is_failed iff FAILURE, or AND with at least one child
\* failed, or OR with all children failed.
C5_Original ==
    \A n \in DOMAIN nodes :
        is_failed(nodes, n) <=> \/ nodes[n].type = "FAILURE"
                                \/ nodes[n].type = "AND" /\ SomeFailed(n)
                                \/ nodes[n].type = "OR" /\ AllFailed(n)

\* C5: for every node of every reachable tree, is_failed is true iff the node
\* has kind FAILURE, or has kind AND or UNSET and at least one failed child,
\* or has kind OR, at least one child, and all its children failed.
C5_IsFailed ==
    \A n \in DOMAIN nodes :
        is_failed(nodes, n) <=>
            \/ nodes[n].type = "FAILURE"
            \/ nodes[n].type \in {"AND", "UNSET"} /\ SomeFailed(n)
            \/ nodes[n].type = "OR" /\ nodes[n].children # <<>> /\ AllFailed(n)

C5_Witness ==
    \E n \in DOMAIN nodes :
        nodes[n].type = "UNSET" /\ nodes[n].children # <<>> /\ is_failed(nodes, n)

\* C6: a node gets kind FAILURE only as the childless leaf of a heuristic
\* pass in which no heuristic's check held, and a step of the safe pass
\* never gives a node the kind FAILURE or OR.
C6_FailureOnlyFromHeuristics ==
    [][ /\ \A n \in DOMAIN nodes' :
              (nodes'[n].type = "FAILURE" /\ (n \notin DOMAIN nodes \/ nodes[n].type # "FAILURE"))
                  => /\ pc = "heur"
                     /\ n = hnode
                     /\ nodes[n].children = <<>>
                     /\ \A i \in DOMAIN HEURISTICS(gen) :
                            ~check(gen, HEURISTICS(gen)[i], nodes, n).ok
        /\ pc = "safe" =>
              \A n \in DOMAIN nodes' :
                  nodes'[n].type \in {"FAILURE", "OR"}
                      => (n \in DOMAIN nodes /\ nodes[n].type = nodes'[n].type)
      ]_vars

C6_Witness ==
    \E n \in DOMAIN nodes :
        nodes[n].type = "FAILURE" /\ nodes[n].transform.cls \in {"PullConstant", "Additivity"}

\* the transform that made n, or the nearest ancestor's, once the edges made
\* by PullConstant, Additivity and Expand are ignored
RECURSIVE NearestRemaining(_)
NearestRemaining(n) ==
    IF n = None THEN "None"
    ELSE IF nodes[n].transform.cls \in {"PullConstant", "Additivity", "Expand"}
         THEN NearestRemaining(nodes[n].parent)
    ELSE nodes[n].transform.cls

\* C7: loop prevention: RewriteTrig is never applied to a node whose nearest
\* remaining ancestor transform is RewriteTrig, TrigUSub never under
\* InverseTrigUSub, and InverseTrigUSub never under TrigUSub.
C7_LoopPrevention ==
    \A n \in DOMAIN nodes :
        nodes[n].parent # None =>
            LET made_by == nodes[n].transform.cls
                above == NearestRemaining(nodes[n].parent)
            IN /\ made_by = "RewriteTrig" => above # "RewriteTrig"
               /\ made_by = "TrigUSub2" => above # "InverseTrigUSub"
               /\ made_by = "InverseTrigUSub" => above # "TrigUSub2"

\* a heuristic pass is over in which RewriteTrig was refused under RewriteTrig
\* and one in which InverseTrigUSub was refused under TrigUSub
C7_Witness ==
    /\ pc = "loop"
    /\ \E n, m \in DOMAIN nodes :
          /\ nodes[n].transform.cls = "RewriteTrig"
          /\ contains_cls(nodes[n].expr, TrigFunction)
          /\ nodes[n].children # <<>>
          /\ nodes[m].transform.cls = "TrigUSub2"
          /\ count(nodes[m].expr,
                   Sum(<<One, Neg(Power(Symbol(nodes[m].var), Const(2, 1)))>>)) > 0
          /\ nodes[m].children # <<>>
          /\ \A k \in DOMAIN nodes[m].children :
                nodes[nodes[m].children[k]].transform.cls # "InverseTrigUSub"

\* C8: Additivity.forward on a Sum of n terms sets kind AND and gives exactly
\* n children, one per summand in order; Additivity.backward sets the
\* parent's solution to the sum of all its children's solutions, and only
\* when every child has a solution.
C8_Additivity ==
    [][ /\ (/\ pc = "safe" /\ stack # <<>> /\ Top.c = 0
            /\ SAFE_TRANSFORMS(gen)[Top.t] = "Additivity" /\ nodes' # nodes)
              => LET n == Top.n
                     terms == nodes[n].expr.args
                     kids == nodes'[n].children
                 IN /\ nodes[n].expr.tag = "Sum"
                    /\ nodes'[n].type = "AND"
                    /\ Len(kids) = Len(terms)
                    /\ \A i \in DOMAIN kids :
                          /\ nodes'[kids[i]].expr = simplify(terms[i])
                          /\ nodes'[kids[i]].parent = n
                          /\ nodes'[kids[i]].transform.cls = "Additivity"
        /\ (pc = "back" /\ l # None /\ nodes[l].transform.cls = "Additivity")
              => LET p == nodes[l].parent
                     kids == nodes[p].children
                 IN IF \A i \in DOMAIN kids : nodes[kids[i]].solution # NoExpr
                    THEN nodes'[p].solution =
                            simplify(Sum([i \in DOMAIN kids |-> nodes[kids[i]].solution]))
                    ELSE nodes'[p].solution = nodes[p].solution
      ]_vars

C8_Witness ==
    \E n \in DOMAIN nodes :
        /\ nodes[n].type = "AND"
        /\ Len(nodes[n].children) = Len(nodes[n].expr.args)
        /\ \A i \in DOMAIN nodes[n].children :
              nodes[nodes[n].children[i]].transform.cls = "Additivity"
        /\ nodes[n].solution # NoExpr

\* C9: PullConstant.check holds exactly when the expression is a Product with
\* a factor that does not contain the variable; the factor pulled out never
\* contains the variable, the single child is the product of the remaining
\* factors, and backward sets the parent's solution to that factor times the
\* child's solution.
C9_PullConstant ==
    /\ (pc = "safe" /\ stack # <<>> /\ Top.c = 0
        /\ SAFE_TRANSFORMS(gen)[Top.t] = "PullConstant")
          => LET node == nodes[Top.n]
                 factors == node.expr.args
                 chk == PullConstant_check(gen, node)
                 kids == PullConstant_forward(gen, node, chk, FreshBase).kids
             IN /\ chk.ok <=> /\ node.expr.tag = "Prod"
                              /\ \E i \in DOMAIN factors : ~contains(factors[i], node.var)
                /\ chk.ok => /\ ~contains(chk.data, node.var)
                             /\ Len(kids) = 1
                             /\ \E i \in DOMAIN factors :
                                   /\ chk.data = factors[i]
                                   /\ kids[1].expr = simplify(Prod(RemoveAt(factors, i)))
    /\ (pc = "back" /\ l # None /\ nodes[l].transform.cls = "PullConstant"
        /\ nodes[l].solution # NoExpr)
          => backward(gen, nodes, l).T[nodes[l].parent].solution
                = simplify(Prod(<<nodes[l].transform.data, nodes[l].solution>>))

\* C10: backward called on a node without a solution, and Additivity.backward
\* called while a sibling has no solution, raises the not-ready signal
\* (ValueError) and leaves the parent's solution unchanged.
C10_NotReadyRaises ==
    (/\ pc = "back" /\ l # None /\ nodes[l].transform.cls # "None"
     /\ \/ nodes[l].solution = NoExpr
        \/ /\ nodes[l].transform.cls = "Additivity"
           /\ \E i \in DOMAIN nodes[nodes[l].parent].children :
                 nodes[nodes[nodes[l].parent].children[i]].solution = NoExpr)
        => /\ backward(gen, nodes, l).raised = "ValueError"
           /\ backward(gen, nodes, l).T[nodes[l].parent].solution
                = nodes[nodes[l].parent].solution


\* the nodes that the forward calls made on node n created as its children,
\* in the order of their creation
created_under(T, n) == SelectIdx([m \in DOMAIN T |-> m], LAMBDA m : T[m].parent = n)

\* C17: after the heuristic pass on an unfinished leaf, the children of the
\* leaf are the children created by every heuristic whose check held, in the
\* priority order of the heuristics, none overwritten; the kind of the leaf is
\* OR with more than one child, UNSET with exactly one, FAILURE with none.
C17_HeuristicPass ==
    [][HeuristicFinish =>
          LET kids == created_under(nodes, hnode)
          IN /\ nodes'[hnode].children = kids
             /\ nodes'[hnode].type = IF Len(kids) > 1 THEN "OR"
                                     ELSE IF Len(kids) = 1 THEN "UNSET" ELSE "FAILURE"
      ]_vars


\* the children of n that are not finished: the branches still to be explored
unfinished_children(T, n) == SelectIdx(T[n].children, LAMBDA c : ~is_finished(T, c))

\* the nodes a descent from n may end on when it takes, at an OR node, a branch
\* whose candidate has minimum nesting and, at any other node, one whose
\* candidate has maximum nesting, unfinished branches only; ties are free
RECURSIVE Frontier(_, _)
Frontier(T, n) ==
    LET uc == unfinished_children(T, n)
        nest(m) == nesting(T[m].expr, T[m].var)
        beats(a, b) == IF T[n].type = "OR" THEN nest(a) <= nest(b) ELSE nest(a) >= nest(b)
    IN IF uc = <<>> THEN {n}
       ELSE {x \in UNION {Frontier(T, uc[i]) : i \in DOMAIN uc} :
                \A j \in DOMAIN uc : \E y \in Frontier(T, uc[j]) : beats(x, y)}

\* C18: on a node with several unfinished leaves, the next frontier node is
\* the one found by descending from the node, taking minimum nesting at OR
\* nodes and maximum nesting at AND nodes, among unfinished branches only.
C18_FrontierSelection ==
    pc = "loop" =>
        \A n \in subtree(nodes, root) :
            Len(unfinished_leaves(nodes, n)) > 1
                => get_next_node_post_heuristic(nodes, n) \in Frontier(nodes, n)


\* the nearest ancestor of n that is an OR node with an unfinished child
RECURSIVE nearest_or(_, _)
nearest_or(T, a) ==
    IF a = None THEN None
    ELSE IF T[a].type = "OR" /\ unfinished_children(T, a) # <<>> THEN a
    ELSE nearest_or(T, T[a].parent)

\* C19: when the leaf just worked on becomes failed, the next frontier node
\* lies under the nearest OR ancestor that still has an unfinished child; when
\* there is no such ancestor the root is failed, no node is handed on, and
\* integrate ends with the overall failure without another cycle.
C19_FailedLeaf ==
    [][ /\ (HeuristicFinish /\ is_failed(nodes', hnode))
            => LET A == nearest_or(nodes', nodes'[hnode].parent)
               IN /\ pc' = "loop"
                  /\ IF A # None THEN answer' \in subtree(nodes', A)
                     ELSE answer' = None /\ is_failed(nodes', root)
        /\ (IntegrateLoop /\ is_failed(nodes, root))
            => result' = "Failed to integrate" /\ cycles' = cycles
      ]_vars


\* C20: tree growth is purely additive: in every step every node keeps the
\* children it has, in place, and may only get more; no forward call of a
\* safe or heuristic transform removes or replaces an attached child.
C20_AdditiveGrowth ==
    [][\A n \in DOMAIN nodes :
          /\ Len(nodes'[n].children) >= Len(nodes[n].children)
          /\ SubSeq(nodes'[n].children, 1, Len(nodes[n].children)) = nodes[n].children
      ]_vars

\* two expressions are the same up to the order of the terms of their sums
\* and products (Associative._sort_inplace fixes an order that simplify does
\* not depend on)
RECURSIVE same_expr(_, _)
same_expr(a, b) ==
    /\ a.tag = b.tag /\ a.val = b.val /\ a.den = b.den /\ Len(a.args) = Len(b.args)
    /\ IF a.tag \in {"Sum", "Prod"}
       THEN \E p \in Permutations(DOMAIN a.args) :
               \A i \in DOMAIN a.args : same_expr(a.args[i], b.args[p[i]])
       ELSE \A i \in DOMAIN a.args : same_expr(a.args[i], b.args[i])

\* C11: simplify is idempotent: for every expression e of the bounded set
\* (rational bases raised to rational exponents, trigonometric functions of
\* rational multiples of pi, sums with Pythagorean pairs), simplify applied to
\* simplify(e) returns an expression structurally equal to simplify(e).
C11_Idempotent ==
    (fn = "simplify" /\ Len(out) = 2) => same_expr(out[2], out[1])

Sign(n) == IF n > 0 THEN 1 ELSE IF n < 0 THEN -1 ELSE 0

\* the value s * sqrt(q) of a closed expression built from rationals, square
\* roots of rationals, products and reciprocals, as [s, q]
RECURSIVE surd(_)
surd(e) ==
    CASE e.tag \in {"Const", "Fraction"} ->
            [s |-> Sign(e.val), q |-> Fraction(e.val * e.val, e.den * e.den)]
      [] e.tag = "Power" /\ e.args[2] = Const(1, 2) /\ IsConst(e.args[1]) ->
            [s |-> Sign(e.args[1].val), q |-> e.args[1]]
      [] e.tag = "Power" /\ e.args[2] = Const(-1, 1) ->
            [s |-> surd(e.args[1]).s, q |-> FracPow(surd(e.args[1]).q, -1)]
      [] e.tag = "Prod" /\ e.args = <<>> -> [s |-> 1, q |-> One]
      [] e.tag = "Prod" /\ e.args # <<>> ->
            [s |-> surd(e.args[1]).s * surd(Prod(Tail(e.args))).s,
             q |-> FracMul(surd(e.args[1]).q, surd(Prod(Tail(e.args))).q)]

\* sin(k * pi) and cos(k * pi) for the special keys, as [s, q]
exact_sin(k) ==
    [s |-> IF k \in {Const(0, 1), Const(1, 1)} THEN 0 ELSE IF k.val < k.den THEN 1 ELSE -1,
     q |-> CASE k \in {Const(0, 1), Const(1, 1)} -> Const(0, 1)
             [] k \in {Const(1, 2), Const(3, 2)} -> Const(1, 1)
             [] k.den = 4 -> Const(1, 2)
             [] k.den = 3 -> Const(3, 4)]
exact_cos(k) ==
    [s |-> IF k \in {Const(1, 2), Const(3, 2)} THEN 0
           ELSE IF 2 * k.val < k.den \/ 2 * k.val > 3 * k.den THEN 1 ELSE -1,
     q |-> CASE k \in {Const(0, 1), Const(1, 1)} -> Const(1, 1)
             [] k \in {Const(1, 2), Const(3, 2)} -> Const(0, 1)
             [] k.den = 4 -> Const(1, 2)
             [] k.den = 3 -> Const(1, 4)]

\* C12: for each of the twelve special keys k, Sin(k*pi).simplify() and
\* Cos(k*pi).simplify() return the exact values of sin(k*pi) and cos(k*pi):
\* the two values of one key satisfy sin^2 + cos^2 = 1, and the value of Sin
\* at key 1-k is the value of Sin at key k.
C12_SpecialValues ==
    \A k \in SPECIAL_KEYS :
        (fn = "simplify" /\ arg = Sin(Prod(<<k, Pi>>)) /\ out # <<>>)
            => LET sin_k == surd(out[1])
                   cos_k == surd(call("simplify", <<Cos(Prod(<<k, Pi>>))>>))
                   sin_1mk == surd(call("simplify",
                                        <<Sin(Prod(<<FracAdd(One, FracMul(Const(-1, 1), k)), Pi>>))>>))
               IN /\ sin_k = exact_sin(k)
                  /\ cos_k = exact_cos(k)
                  /\ FracAdd(sin_k.q, cos_k.q) = One
                  /\ sin_1mk = sin_k

\* C13: Sum.simplify rewrites 1 + tan^2(u) to sec^2(u), 1 + cot^2(u) to
\* csc^2(u), 1 - sin^2(u) to cos^2(u) and 1 - cos^2(u) to sin^2(u) for every
\* sub-expression u (2*x and x + 1 as well as the single symbol x).
C13_PythagoreanRewrite ==
    \A u \in Us :
        LET one_plus(f) == Sum(<<One, Sq(SingleFunc(f, u))>>)
            one_minus(f) == Sum(<<One, Neg(Sq(SingleFunc(f, u)))>>)
            square_of(g) == Sq(SingleFunc(g, call("simplify", <<u>>)))
        IN (fn = "simplify" /\ out # <<>>)
              => /\ arg = one_plus("Tan") => same_expr(out[1], square_of("Sec"))
                 /\ arg = one_plus("Cot") => same_expr(out[1], square_of("Csc"))
                 /\ arg = one_minus("Sin") => same_expr(out[1], square_of("Cos"))
                 /\ arg = one_minus("Cos") => same_expr(out[1], square_of("Sin"))

\* C14: Sum.simplify terminates on every sum that holds the pair
\* sin^2(u) + cos^2(u) or the pair sec^2(u) - tan^2(u), and returns the sum
\* with the two terms of the pair replaced by the constant 1.
C14_PairToOne ==
    \A u \in Us :
        (fn = "simplify" /\ out # <<>>)
            => /\ arg = Sum(<<Sq(Sin(u)), Sq(Cos(u))>>) => out[1] = One
               /\ arg = Sum(<<Sq(Cos(u)), Symbol(Y), Sq(Sin(u))>>)
                     => same_expr(out[1], Sum(<<One, Symbol(Y)>>))
               /\ arg = Sum(<<Sq(Sec(u)), Neg(Sq(Tan(u)))>>) => out[1] = One
               /\ arg = Sum(<<v0, Sq(Sec(u)), Neg(Sq(Tan(u)))>>)
                     => same_expr(out[1], Sum(<<One, v0>>))

\* the degree in x of a polynomial expression, -1 when it is no polynomial
degree(p) == polynomial_len(p, X) - 1

\* C15: PartialFractions.check returns False, and raises nothing, whenever
\* the degree of the numerator in the variable is not strictly smaller than
\* the degree of the denominator, for polynomial numerators and denominators
\* of two factors.
C15_RejectsImproper ==
    (fn = "PartialFractions" /\ out # <<>> /\ nodes[1].expr.tag = "Prod")
        => LET nd == numerator_denominator(nodes[1].expr)
           IN (degree(nd[1]) >= 0 /\ degree(nd[2]) >= 0 /\ degree(nd[1]) >= degree(nd[2]))
                  => (~out[1].ok /\ out[1].err = "")

\* rational arithmetic on coefficient vectors and on expressions at a point
FracDiv(a, b) == Fraction(a.val * b.den, a.den * b.val)
coef(p, k) == IF k \in DOMAIN p THEN p[k] ELSE Zero
product_coef(q, d, k) ==
    LET RECURSIVE go(_)
        go(i) == IF i > k THEN Zero
                 ELSE FracAdd(FracMul(coef(q, i), coef(d, k - i + 1)), go(i + 1))
    IN go(1)
poly_value(p, x0) ==
    LET RECURSIVE go(_)
        go(k) == IF k > Len(p) THEN Zero ELSE FracAdd(FracMul(p[k], FracPow(x0, k - 1)), go(k + 1))
    IN go(1)
RECURSIVE value_of(_, _)
value_of(e, x0) ==
    LET RECURSIVE fold(_, _)
        fold(i, add) == IF i > Len(e.args) THEN (IF add THEN Zero ELSE One)
                        ELSE IF add THEN FracAdd(value_of(e.args[i], x0), fold(i + 1, add))
                        ELSE FracMul(value_of(e.args[i], x0), fold(i + 1, add))
    IN IF e.tag = "Const" THEN e
       ELSE IF e.tag = "Symbol" THEN x0
       ELSE IF e.tag = "Sum" THEN fold(1, TRUE)
       ELSE IF e.tag = "Prod" THEN fold(1, FALSE)
       ELSE FracPow(value_of(e.args[1], x0), e.args[2].val)
SamplePoints == {Const(2, 1), Const(5, 1)}

\* the rounds the loop makes on a numerator and a denominator, counted up to
\* fuel rounds and one more
RECURSIVE iterations(_, _, _)
iterations(numerator, denominator, fuel) ==
    IF Len(numerator) < Len(denominator) THEN 0
    ELSE IF fuel = 0 THEN 1
    ELSE 1 + iterations(divide_step(numerator, denominator).numerator, denominator, fuel - 1)

C21_UnsetSingleChild ==
    pc # "safe"
        => \A n \in DOMAIN nodes : nodes[n].type = "UNSET" => Len(nodes[n].children) <= 1

\* C22: in every reachable tree the root has no parent and no incoming
\* transform, and every other node reachable from the root through children
\* lists has a transform and a parent whose children list contains it.
C22_ParentLinks ==
    /\ nodes[root].parent = None
    /\ nodes[root].transform = NoTransform
    /\ \A n \in subtree(nodes, root) \ {root} :
          /\ nodes[n].transform # NoTransform
          /\ nodes[n].parent \in DOMAIN nodes
          /\ \E i \in DOMAIN nodes[nodes[n].parent].children :
                nodes[nodes[n].parent].children[i] = n

\* ByParts.forward has hung its two-layer result under a node other than the
\* root: the grandchildren point to the AND node, the AND node to that node
C22_Witness ==
    \E n \in subtree(nodes, root) :
       /\ nodes[n].transform.cls = "Additivity"
       /\ nodes[n].parent # root
       /\ nodes[nodes[n].parent].transform.cls = "ByParts"
       /\ nodes[nodes[n].parent].type = "AND"
       /\ nodes[nodes[n].parent].parent # None

\* the transform whose check the next step of a pass calls, and its node
checked_cls == IF pc = "safe" THEN SAFE_TRANSFORMS(gen)[stack[Len(stack)].t]
               ELSE HEURISTICS(gen)[hidx]
checked_node == IF pc = "safe" THEN stack[Len(stack)].n ELSE hnode
check_called ==
    \/ pc = "safe" /\ stack # <<>> /\ stack[Len(stack)].c = 0
    \/ pc = "heur" /\ hidx <= Len(HEURISTICS(gen))

HandApplied(g) ==
    IF g = "legacy"
    THEN {<<"B_Tan", Sum(<<Power(Tan(v0), Const(4, 1)), Const(-1, 1)>>)>>,
          <<"B_Tan", Sq(Tan(v0))>>,
          <<"B_Tan", Tan(v0)>>}
    ELSE {<<"LinearUSub", Sq(Sum(<<One, v0>>))>>,
          <<"LinearUSub", Sin(Sum(<<One, Prod(<<Const(2, 1), v0>>)>>))>>,
          <<"TrigUSub2", Sq(Tan(v0))>>,
          <<"TrigUSub2", Sin(v0)>>,
          <<"PolynomialUSub", Prod(<<v0, Sin(Sq(v0))>>)>>,
          <<"SinUSub", Prod(<<Sin(v0), Cos(v0)>>)>>,
          <<"InverseTrigUSub", Inv(Sum(<<One, Sq(v0)>>))>>,
          <<"GenericUSub", Prod(<<Inv(v0), Log(v0)>>)>>,
          <<"RewriteTrig", ArcTan(v0)>>, <<"ByParts", Log(v0)>>,
          <<"ByParts", Prod(<<v0, Cos(v0)>>)>>}

\* the tree after that call, handed to the loop of integrate with the first
\* unfinished leaf for curr_node
InitH ==
    /\ gen \in {"legacy", "pkg"}
    /\ \E ha \in HandApplied(gen) :
       \E tr \in {call("try_transform",
                       <<gen, ha[1], <<call("Node", <<ha[2], X, NoTransform, None>>)>>, root>>)} :
          /\ tr.chk.ok
          /\ tr.chk.err = ""
          /\ unfinished_leaves(tr.T, root) # <<>>
          /\ nodes = tr.T
          /\ curr = unfinished_leaves(tr.T, root)[1]
    /\ pc = "safe"
    /\ answer = None
    /\ stack = <<Frame(curr, 1, 0)>>
    /\ hnode = None
    /\ hidx = 0
    /\ queue = <<>>
    /\ l = None
    /\ cycles = 1
    /\ result = ""
    /\ fn = ""
    /\ arg = NoExpr
    /\ out = <<>>

HandSpec == InitH /\ [][Next]_vars

\* the transforms that change the variable of integration: the six of the
\* package and B_Tan, C_Sin, C_Tan, their counterparts of the first generation
VariableChanges ==
    {"TrigUSub2", "InverseTrigUSub", "PolynomialUSub", "LinearUSub", "SinUSub", "GenericUSub",
     "B_Tan", "C_Sin", "C_Tan"}

\* the backward walk stands on a solved child of a variable-change transform
substitutes_back ==
    /\ pc = "back"
    /\ l # None
    /\ nodes[l].transform.cls \in VariableChanges
    /\ nodes[l].solution # NoExpr

\* C24: for every variable-change transform, backward sets the parent's
\* solution to the child's solution with every occurrence of the child's
\* fresh variable replaced by the recorded original expression, so the
\* parent's solution never contains the fresh variable.
C24_SubstitutesBack ==
    [][substitutes_back
          => /\ nodes'[nodes[l].parent].solution
                   = simplify(replace(nodes[l].solution, Symbol(nodes[l].var),
                                      nodes[l].transform.data))
             /\ ~contains(nodes'[nodes[l].parent].solution, nodes[l].var)]_vars

\* the same, for the transforms of the package only
C24_Pkg ==
    [][(substitutes_back /\ gen = "pkg")
          => /\ nodes'[nodes[l].parent].solution
                   = simplify(replace(nodes[l].solution, Symbol(nodes[l].var),
                                      nodes[l].transform.data))
             /\ ~contains(nodes'[nodes[l].parent].solution, nodes[l].var)]_vars

\* the AND nodes ByParts.forward has made
by_parts_nodes ==
    {m \in DOMAIN nodes : nodes[m].transform.cls = "ByParts" /\ nodes[m].type = "AND"}

\* the heuristic pass is about to call ByParts.check on its leaf
by_parts_called ==
    /\ pc = "heur"
    /\ hidx <= Len(HEURISTICS(gen))
    /\ HEURISTICS(gen)[hidx] = "ByParts"

\* the factor (-u'v / integrand) whose freedom from the variable decides the
\* direct-solve case of ByParts.forward
by_parts_factor(node, stuff) ==
    simplify(Div(simplify(Prod(<<Prod(<<stuff.args[2], stuff.args[3]>>), Const(-1, 1)>>)),
                 node.expr))

\* C25, forward: when check holds and the direct-solve case does not apply,
\* ByParts.forward appends to the node one AND node with exactly two
\* children, a SOLUTION child whose solution is u*v and an unsolved child
\* whose expression is -u'*v.
C25_forward ==
    by_parts_called
        => LET chk == check(gen, "ByParts", nodes, hnode)
               stuff == chk.aux
               m == Len(nodes) + 1
           IN (chk.ok /\ chk.err = "" /\ contains(by_parts_factor(nodes[hnode], stuff), nodes[hnode].var)
               /\ Len(nodes) + 3 <= MaxNodes)
                 => /\ Len(nodes') = Len(nodes) + 3
                    /\ nodes'[hnode].children = Append(nodes[hnode].children, m)
                    /\ nodes'[m].type = "AND"
                    /\ nodes'[m].parent = hnode
                    /\ nodes'[m].children = <<m + 1, m + 2>>
                    /\ nodes'[m + 1].type = "SOLUTION"
                    /\ nodes'[m + 1].solution
                          = simplify(Prod(<<stuff.args[1], stuff.args[3]>>))
                    /\ nodes'[m + 2].type = "UNSET"
                    /\ nodes'[m + 2].solution = NoExpr
                    /\ nodes'[m + 2].children = <<>>
                    /\ nodes'[m + 2].expr
                          = simplify(Prod(<<Prod(<<stuff.args[2], stuff.args[3]>>), Const(-1, 1)>>))

\* C25, backward: ByParts.backward hands the solution of the AND node, u*v
\* plus the solution of the second child, to the original node.
C25_backward ==
    (pc = "back" /\ l \in by_parts_nodes /\ nodes[l].solution # NoExpr)
        => /\ nodes[l].solution
                 = simplify(Sum(<<nodes[nodes[l].children[1]].solution,
                                  nodes[nodes[l].children[2]].solution>>))
           /\ nodes'[nodes[l].parent].solution = nodes[l].solution

\* C25: when the direct-solve case does not apply, ByParts.forward appends to
\* the node one AND node with exactly two children, a SOLUTION child whose
\* solution is u*v and an unsolved child whose expression is -u'*v; that AND
\* node is solved exactly when the unsolved child is solved, and after
\* back-propagation the original node's solution equals u*v plus the second
\* child's solution.
C25_ByParts ==
    /\ [][C25_forward]_vars
    /\ [](\A m \in by_parts_nodes :
             /\ Len(nodes[m].children) = 2
             /\ is_solved(nodes, m) <=> is_solved(nodes, nodes[m].children[2]))
    /\ [][C25_backward]_vars

\* the solution of a ByParts node, u*v plus that of its second child, has
\* reached the node the transform was applied to
C25_Witness ==
    \E m \in by_parts_nodes :
       /\ nodes[m].solution # NoExpr
       /\ nodes[nodes[m].children[2]].solution # NoExpr
       /\ nodes[nodes[m].children[1]].solution # NoExpr
       /\ nodes[nodes[m].parent].solution = nodes[m].solution
       /\ nodes[m].solution = simplify(Sum(<<nodes[nodes[m].children[1]].solution,
                                             nodes[nodes[m].children[2]].solution>>))

\* an unfinished leaf: no children, neither solved nor failed
is_unfinished_leaf(T, n) ==
    n \in DOMAIN T /\ T[n].children = <<>> /\ ~is_solved(T, n) /\ ~is_failed(T, n)

\* C26: every node that frontier selection hands to the next cycle is an
\* unfinished leaf (no children, neither solved nor failed); the only other
\* result is None, when no OR ancestor remains.
C26_ReturnsUnfinishedLeaf ==
    (pc = "loop" /\ answer # SOLVED)
        => (answer = None \/ is_unfinished_leaf(nodes, answer))

\* C27: in every reachable tree no node is both solved and failed.
C27_SolvedXorFailed ==
    \A n \in DOMAIN nodes : ~(is_solved(nodes, n) /\ is_failed(nodes, n))

\* a conjunction that has failed through one child while another is solved
C27_Witness ==
    \E n \in subtree(nodes, root) :
        /\ nodes[n].type \in {"AND", "UNSET"}
        /\ is_failed(nodes, n)
        /\ ~is_solved(nodes, n)
        /\ \E i \in DOMAIN nodes[n].children : is_solved(nodes, nodes[n].children[i])

\* C28: a node that has no unfinished leaves is finished (solved or failed);
\* hence whenever the root is not finished it has at least one unfinished leaf.
C28_NoUnfinishedLeavesIsFinished ==
    /\ \A n \in DOMAIN nodes :
          unfinished_leaves(nodes, n) = <<>> => is_finished(nodes, n)
    /\ ~is_finished(nodes, root) => unfinished_leaves(nodes, root) # <<>>

\* a node with several leaves, some solved and some failed and none
\* unfinished, which is finished
C28_Witness ==
    \E n \in subtree(nodes, root) :
        /\ Len(leaves(nodes, n)) > 1
        /\ unfinished_leaves(nodes, n) = <<>>
        /\ is_finished(nodes, n)
        /\ \E i, j \in DOMAIN leaves(nodes, n) :
              is_solved(nodes, leaves(nodes, n)[i]) /\ is_failed(nodes, leaves(nodes, n)[j])

\* C29: RewriteTrig.forward (legacy A.forward) never creates a child whose
\* expression equals the expression of its node: every rewrite that leaves
\* the expression unchanged is dropped.
C29_NoUnchangedRewrite ==
    \A n \in DOMAIN nodes :
        (nodes[n].transform.cls \in {"RewriteTrig", "A"} /\ nodes[n].parent # None)
            => nodes[n].expr # nodes[nodes[n].parent].expr

\* C30: Sum.simplify applies a "1 plus or minus f^2(u)" rewrite only to the
\* constant 1 with the matching squared term of one of the four identities;
\* a two-term sum with another constant, another exponent, a factor or a
\* divisor on the squared term, or of the form 1 - tan^2(u), 1 - cot^2(u),
\* is returned unchanged.
C30_OnlyTheFourIdentities ==
    (fn = "simplify" /\ arg \in NearIdentities /\ out # <<>>) => out[1] = arg

====
